---- MODULE Spec2Model ----
(***************************************************************************)
(* Model of the Unsplash MCP server's mediation layer:                     *)
(*   - UnsplashClient (services/unsplash-client.ts): constructor,          *)
(*     makeRequest, trackDownload;                                         *)
(*   - the formatters and truncateIfNeeded (services/formatters.ts);       *)
(*   - the input schemas (schemas/index.ts) and the tool handlers          *)
(*     (tools/photos.ts, tools/collections-users.ts).                      *)
(* Strings are TLA+ strings (Len, \o and SubSeq act on them as on JS       *)
(* strings of BMP characters).                                             *)
(***************************************************************************)
EXTENDS Integers, Sequences, FiniteSets, TLC

VARIABLES
    \* UnsplashClient
    ctorArg,      \* the argument given to `new UnsplashClient(arg)`
    ctorState,    \* "new" (not constructed yet), "ok" (client exists), "threw"
    accessKey,    \* this.accessKey of the client
    \* one makeRequest call
    pc,           \* "idle", "fetch", "text", "json", "done": the await the call is at
    req,          \* the call's arguments, the URL and the headers given to fetch
    resp,         \* the Response fetch resolved with, or NoResponse
    fetchThrown,  \* the value fetch rejected with, or NoThrown
    result,       \* how the call settled: returned value or thrown error
    fetchCount,   \* how many times the call has called fetch
    \* one trackDownload call
    tpc,          \* "idle", "fetch", "done"
    treq,         \* the URL and the headers given to fetch
    tresult,      \* "none", "resolved", "rejected"
    log,          \* what console.error has written, oldest first
    \* pure functions applied to drawn inputs
    urlIn,        \* [endpoint, hasParams, params] given to the URL builder
    urlOut,       \* [done, value]: the URL built
    truncIn,      \* [content, limit, given]: the arguments of truncateIfNeeded
    truncOut,     \* [done, value]: the string returned
    fmtIn,        \* [kind, record] given to a formatter, record a list for a list formatter
    fmtOut,       \* [done, out]: the text returned or the error thrown
    valIn,        \* [tool, input]: the arguments of a tool call
    valOut,       \* [done, ok, params, url]: the parsed parameters and the request
    \* one tool call
    toolPc,       \* "idle", "rejected", "request", "track", "done"
    toolCall,     \* [tool, input, params]: the tool, its arguments as sent and as parsed
    toolData,     \* the value makeRequest returned to the handler, or NoData
    toolThrown,   \* the error makeRequest threw to the handler, if any
    outbound,     \* the calls made to the network, oldest first
    toolResult,   \* what the handler returned, or NoToolResult
    \* several makeRequest calls in flight on one client
    ops           \* per operation: [pc, req, resp, fetchThrown, readThrown, result]

clientVars == <<ctorArg, ctorState, accessKey>>
callVars == <<pc, req, resp, fetchThrown, result, fetchCount>>
trackVars == <<tpc, treq, tresult, log>>
urlVars == <<urlIn, urlOut>>
truncVars == <<truncIn, truncOut>>
fmtVars == <<fmtIn, fmtOut>>
valVars == <<valIn, valOut>>
toolVars == <<toolPc, toolCall, toolData, toolThrown, outbound, toolResult>>
opsVars == <<ops>>
otherVars == <<fmtVars, valVars, toolVars, opsVars>>
vars == <<clientVars, callVars, trackVars, urlVars, truncVars, otherVars>>

-----------------------------------------------------------------------------
(* JavaScript values that the model passes around: strings, numbers         *)
(* (integers), booleans and undefined, in one record shape.                 *)

Undef == [t |-> "undefined", s |-> "", n |-> 0, b |-> FALSE]
Str(s) == [t |-> "string", s |-> s, n |-> 0, b |-> FALSE]
Num(n) == [t |-> "number", s |-> "", n |-> n, b |-> FALSE]
Bool(b) == [t |-> "boolean", s |-> "", n |-> 0, b |-> b]

\* String(value) of a string, an integer, a boolean or undefined.
JSString(v) ==
    CASE v.t = "string" -> v.s
      [] v.t = "number" -> ToString(v.n)
      [] v.t = "boolean" -> (IF v.b THEN "true" ELSE "false")
      [] OTHER -> "undefined"

\* ToBoolean(value): "", 0, false and undefined are falsy.
Truthy(v) ==
    CASE v.t = "string" -> v.s # ""
      [] v.t = "number" -> v.n # 0
      [] v.t = "boolean" -> v.b
      [] OTHER -> FALSE

CharAt(s, i) == SubSeq(s, i, i)

StartsWith(s, p) == Len(p) <= Len(s) /\ SubSeq(s, 1, Len(p)) = p

-----------------------------------------------------------------------------
(* Query string and URL: makeRequest, unsplash-client.ts lines 33-44.       *)

UNSPLASH_API_URL == "https://api.unsplash.com"

Digits == {"0", "1", "2", "3", "4", "5", "6", "7", "8", "9"}

Letters ==
    {"a", "b", "c", "d", "e", "f", "g", "h", "i", "j", "k", "l", "m",
     "n", "o", "p", "q", "r", "s", "t", "u", "v", "w", "x", "y", "z",
     "A", "B", "C", "D", "E", "F", "G", "H", "I", "J", "K", "L", "M",
     "N", "O", "P", "Q", "R", "S", "T", "U", "V", "W", "X", "Y", "Z"}

\* The characters the application/x-www-form-urlencoded serializer leaves as
\* they are.
FormSafe == Letters \cup Digits \cup {"*", "-", ".", "_"}

\* The serializer's output for one character: a safe character is kept, a
\* space becomes "+", any other character is percent-encoded (the table
\* lists the ASCII punctuation the model's inputs use).
FormEncodeChar(c) ==
    CASE c \in FormSafe -> c
      [] c = " " -> "+"
      [] c = "&" -> "%26"
      [] c = "=" -> "%3D"
      [] c = "+" -> "%2B"
      [] c = "%" -> "%25"
      [] c = "?" -> "%3F"
      [] c = "#" -> "%23"
      [] c = "/" -> "%2F"

RECURSIVE FormEncode(_)
FormEncode(s) ==
    IF s = "" THEN ""
    ELSE FormEncodeChar(CharAt(s, 1)) \o FormEncode(SubSeq(s, 2, Len(s)))

\* The value of a string of decimal digits.
DigitValue(c) ==
    CASE c = "0" -> 0 [] c = "1" -> 1 [] c = "2" -> 2 [] c = "3" -> 3
      [] c = "4" -> 4 [] c = "5" -> 5 [] c = "6" -> 6 [] c = "7" -> 7
      [] c = "8" -> 8 [] c = "9" -> 9

RECURSIVE DecimalValue(_)
DecimalValue(s) ==
    IF s = "" THEN 0
    ELSE 10 * DecimalValue(SubSeq(s, 1, Len(s) - 1)) + DigitValue(CharAt(s, Len(s)))

\* An object's property key is an integer index when it is the canonical
\* decimal text of an integer in 0 .. 2^32 - 2. Every canonical decimal of at
\* most 9 digits is one; the model's keys have fewer than 10 characters.
IsIntegerKey(k) ==
    /\ Len(k) \in 1..9
    /\ \A i \in 1..Len(k) : CharAt(k, i) \in Digits
    /\ (Len(k) > 1 => CharAt(k, 1) # "0")

\* The entries of props at the indices in left, sorted by the integer value
\* of their keys.
RECURSIVE SortedIntegerEntries(_, _)
SortedIntegerEntries(props, left) ==
    IF left = {} THEN <<>>
    ELSE LET i == CHOOSE x \in left :
                     \A y \in left :
                         DecimalValue(props[x].key) <= DecimalValue(props[y].key)
         IN  <<props[i]>> \o SortedIntegerEntries(props, left \ {i})

\* Object.entries(params): props is the object's own properties in the order
\* they were created (keys distinct). Integer keys come first in ascending
\* numeric order, then the other keys in creation order.
ObjectEntries(props) ==
    SortedIntegerEntries(props, {i \in 1..Len(props) : IsIntegerKey(props[i].key)})
    \o SelectSeq(props, LAMBDA e : ~IsIntegerKey(e.key))

\* AppendDefined without the `value !== undefined` test of line 36.
RECURSIVE AppendDefined_NoSkip(_)
AppendDefined_NoSkip(entries) ==
    IF entries = <<>> THEN <<>>
    ELSE <<[name |-> Head(entries).key, value |-> JSString(Head(entries).value)]>>
         \o AppendDefined_NoSkip(Tail(entries))

\* new URLSearchParams() followed by the forEach of lines 35-39: the list of
\* name/value pairs appended, each value already String(value).
RECURSIVE AppendDefined(_)
AppendDefined(entries) ==
    IF entries = <<>> THEN <<>>
    ELSE LET e == Head(entries)
         IN  (IF e.value # Undef
              THEN <<[name |-> e.key, value |-> JSString(e.value)]>>
              ELSE <<>>)
             \o AppendDefined(Tail(entries))

QueryParams(hasParams, props) ==
    IF hasParams THEN AppendDefined(ObjectEntries(props)) ELSE <<>>

\* URLSearchParams.prototype.toString(): the pairs serialized as
\* name=value, joined by "&", names and values form-urlencoded.
RECURSIVE SearchParamsToString(_)
SearchParamsToString(pairs) ==
    IF pairs = <<>> THEN ""
    ELSE FormEncode(Head(pairs).name) \o "=" \o FormEncode(Head(pairs).value)
         \o (IF Len(pairs) > 1 THEN "&" ELSE "")
         \o SearchParamsToString(Tail(pairs))

\* BuildUrl writing the "?" whenever a params object is given.
BuildUrl_AlwaysMark(endpoint, hasParams, props) ==
    LET qs == SearchParamsToString(QueryParams(hasParams, props))
    IN  UNSPLASH_API_URL \o endpoint \o (IF hasParams THEN "?" \o qs ELSE "")

\* Lines 42-44: the template literal that builds the URL.
BuildUrl(endpoint, hasParams, props) ==
    LET qs == SearchParamsToString(QueryParams(hasParams, props))
    IN  UNSPLASH_API_URL \o endpoint \o (IF qs # "" THEN "?" \o qs ELSE "")


-----------------------------------------------------------------------------
(* Inputs of the model.                                                     *)

MaxParams == 2

Endpoints == {"/search/photos", "/photos/abc123"}

\* Property keys: two ordinary names, one name with a space, two integer
\* keys whose numeric and textual orders differ.
ParamKeys == {"query", "page", "a b", "10", "2"}

ParamValues ==
    {Str("nature"), Str("blue sky"), Str("a&b=c"), Str(""),
     Num(1), Num(-5), Bool(TRUE), Bool(FALSE), Undef}

RECURSIVE SeqsUpTo(_, _)
SeqsUpTo(S, n) ==
    IF n = 0 THEN {<<>>}
    ELSE LET shorter == SeqsUpTo(S, n - 1)
         IN  shorter \cup {Append(q, x) : q \in shorter, x \in S}

\* The params objects: up to MaxParams properties with distinct keys, in
\* creation order.
ParamObjects ==
    {props \in SeqsUpTo([key : ParamKeys, value : ParamValues], MaxParams) :
        \A i, j \in 1..Len(props) : i # j => props[i].key # props[j].key}

UrlInputs ==
    {[endpoint |-> e, hasParams |-> TRUE, params |-> props] :
        e \in Endpoints, props \in ParamObjects}
    \cup {[endpoint |-> e, hasParams |-> FALSE, params |-> <<>>] : e \in Endpoints}


-----------------------------------------------------------------------------
(* JSON bodies. A JSON value is null, a number, or an object with the       *)
(* fields the client reads (errors, error) and one payload field (id).      *)
(* A field is absent, a string, or an array of strings.                     *)

FAbsent == [p |-> "absent", s |-> "", items |-> <<>>]
FString(s) == [p |-> "string", s |-> s, items |-> <<>>]
FArray(items) == [p |-> "array", s |-> "", items |-> items]

JNull == [k |-> "null", n |-> 0, errors |-> FAbsent, error |-> FAbsent, id |-> FAbsent]
JNumber(n) == [k |-> "number", n |-> n, errors |-> FAbsent, error |-> FAbsent, id |-> FAbsent]
JObject(errors, error, id) ==
    [k |-> "object", n |-> 0, errors |-> errors, error |-> error, id |-> id]

ErrorsFields ==
    {FAbsent, FArray(<<>>), FArray(<<"">>), FArray(<<"Unauthorized">>),
     FArray(<<"Unauthorized", "Second">>), FString("oops")}

ErrorFields == {FAbsent, FString(""), FString("Rate Limit Exceeded")}

\* The JSON values the remote service's bodies can hold in the model.
JsonDocs ==
    {JNull, JNumber(42), JObject(FAbsent, FAbsent, FString("test"))}
    \cup {JObject(es, e, FAbsent) : es \in ErrorsFields, e \in ErrorFields}

Quote(s) == "\"" \o s \o "\""

RECURSIVE JoinQuoted(_)
JoinQuoted(items) ==
    IF items = <<>> THEN ""
    ELSE Quote(Head(items)) \o (IF Len(items) > 1 THEN "," ELSE "")
         \o JoinQuoted(Tail(items))

FieldText(name, f) ==
    CASE f.p = "absent" -> <<>>
      [] f.p = "string" -> <<Quote(name) \o ":" \o Quote(f.s)>>
      [] f.p = "array" -> <<Quote(name) \o ":[" \o JoinQuoted(f.items) \o "]">>

RECURSIVE JoinComma(_)
JoinComma(parts) ==
    IF parts = <<>> THEN ""
    ELSE Head(parts) \o (IF Len(parts) > 1 THEN "," ELSE "") \o JoinComma(Tail(parts))

\* The JSON text of a value (JSON.stringify); the service's bodies are
\* written with it.
JSONStringify(j) ==
    CASE j.k = "null" -> "null"
      [] j.k = "number" -> ToString(j.n)
      [] j.k = "object" ->
            "{" \o JoinComma(FieldText("errors", j.errors) \o FieldText("error", j.error)
                             \o FieldText("id", j.id)) \o "}"

\* JSON.parse(text): the value whose JSON text it is; any other text (empty,
\* plain text, HTML) is a SyntaxError.
JSONParse(text) ==
    LET docs == {d \in JsonDocs : JSONStringify(d) = text}
    IN  IF docs # {} THEN [ok |-> TRUE, value |-> CHOOSE d \in docs : TRUE]
        ELSE [ok |-> FALSE, value |-> JNull]

\* Bodies that are not JSON.
PlainBodies == {"", "Not Found", "<html>Bad Gateway</html>"}

Bodies == {JSONStringify(d) : d \in JsonDocs} \cup PlainBodies

StatusCodes == {200, 204, 401, 404, 500}

\* Response.ok of the fetch standard.
ResponseOk(status) == status \in 200..299

NoResponse == [present |-> FALSE, status |-> 0, ok |-> FALSE, body |-> "", read |-> "pending"]

-----------------------------------------------------------------------------
(* Errors. One record shape for every thrown value: cls is its class        *)
(* ("NonError" for a thrown value that is not an Error instance).           *)

RespNone == [kind |-> "undefined", text |-> ""]
RespText(t) == [kind |-> "text", text |-> t]
RespCause(e) == [kind |-> "error", text |-> e.message]

Thrown(cls, message) ==
    [cls |-> cls, message |-> message, statusCode |-> Undef, response |-> RespNone]

\* new UnsplashAPIError(message, statusCode, response), lines 5-14.
UnsplashAPIError(message, statusCode, response) ==
    [cls |-> "UnsplashAPIError", message |-> message, statusCode |-> statusCode,
     response |-> response]

IsUnsplashAPIError(e) == e.cls = "UnsplashAPIError"

IsError(e) == e.cls # "NonError"

NoThrown == [present |-> FALSE, error |-> Thrown("NonError", "")]

\* What fetch can reject with before a response is obtained.
FetchThrowables ==
    {Thrown("TypeError", "fetch failed"),
     Thrown("Error", "Network failure"),
     Thrown("NonError", "timeout"),
     UnsplashAPIError("injected", Num(418), RespNone)}

\* What reading a body can reject with.
BodyThrowables == {Thrown("TypeError", "terminated")}

JsonSyntaxError == Thrown("SyntaxError", "Unexpected token in JSON")


-----------------------------------------------------------------------------
(* UnsplashClient: the code of makeRequest and trackDownload.               *)

\* ConstructorAccepts testing only for a missing key.
ConstructorAccepts_OnlyUndefined(key) == key # Undef

\* Line 20: the constructor goes on when `!accessKey` is false.
ConstructorAccepts(key) == Truthy(key)

\* RequestHeaders without the Accept-Version header.
RequestHeaders_NoVersion(key) ==
    ("Authorization" :> "Client-ID " \o JSString(key))

\* Lines 48-51: the headers makeRequest gives to fetch.
RequestHeaders(key) ==
    ("Authorization" :> "Client-ID " \o JSString(key)) @@ ("Accept-Version" :> "v1")

\* Line 56: the generic message.
GenericMessage(status) == "Unsplash API error (" \o ToString(status) \o ")"

\* `errorJson.errors?.[0]`: undefined for an absent field and for an empty
\* array or string, else the first element (of a string, its first character).
FirstOf(f) ==
    CASE f.p = "array" -> (IF f.items = <<>> THEN Undef ELSE Str(f.items[1]))
      [] f.p = "string" -> (IF f.s = "" THEN Undef ELSE Str(CharAt(f.s, 1)))
      [] OTHER -> Undef

\* `errorJson.error`.
FieldValue(f) == IF f.p = "string" THEN Str(f.s) ELSE Undef

\* JsonErrorMessage with the two fields tried in the other order.
JsonErrorMessage_ErrorFirst(json, errorMessage) ==
    IF Truthy(FieldValue(json.error)) THEN JSString(FieldValue(json.error))
    ELSE IF Truthy(FirstOf(json.errors)) THEN JSString(FirstOf(json.errors))
    ELSE errorMessage

\* Line 60, for a parsed value that is not null:
\* errorJson.errors?.[0] || errorJson.error || errorMessage.
JsonErrorMessage(json, errorMessage) ==
    IF Truthy(FirstOf(json.errors)) THEN JSString(FirstOf(json.errors))
    ELSE IF Truthy(FieldValue(json.error)) THEN JSString(FieldValue(json.error))
    ELSE errorMessage

\* CatchErrorMessage keeping the generic message.
CatchErrorMessage_Generic(errorText, errorMessage) == errorMessage

\* Line 62, the inner catch: errorText || errorMessage.
CatchErrorMessage(errorText, errorMessage) ==
    IF errorText # "" THEN errorText ELSE errorMessage

\* Lines 56-63: JSON.parse throws on text that is not JSON, and reading a
\* property of null throws a TypeError; both land in the inner catch.
ErrorMessage(status, errorText) ==
    LET parsed == JSONParse(errorText)
    IN  IF parsed.ok /\ parsed.value.k # "null"
        THEN JsonErrorMessage(parsed.value, GenericMessage(status))
        ELSE CatchErrorMessage(errorText, GenericMessage(status))

\* Line 65: the error thrown for a response that is not ok.
StatusError(status, errorText) ==
    UnsplashAPIError(ErrorMessage(status, errorText), Num(status), RespText(errorText))

\* OuterCatch without the `instanceof UnsplashAPIError` test of line 70: the
\* error of a non-success status is wrapped like any other Error.
OuterCatch_WrapsOwn(error) ==
    IF IsError(error)
    THEN UnsplashAPIError("Network error: " \o error.message, Undef, RespCause(error))
    ELSE UnsplashAPIError("Unknown error occurred", Undef, RespNone)

\* OuterCatch without the `instanceof Error` test of line 74.
OuterCatch_AlwaysNetwork(error) ==
    IF IsUnsplashAPIError(error) THEN error
    ELSE UnsplashAPIError("Network error: " \o error.message, Undef, RespCause(error))

\* Lines 69-83: what the outer catch throws for the value it caught.
OuterCatch(error) ==
    IF IsUnsplashAPIError(error) THEN error
    ELSE IF IsError(error)
         THEN UnsplashAPIError("Network error: " \o error.message, Undef, RespCause(error))
         ELSE UnsplashAPIError("Unknown error occurred", Undef, RespNone)

\* SuccessValue losing a field of the body.
SuccessValue_DropId(parsed) == [parsed EXCEPT !.id = FAbsent]

\* Line 68: the value makeRequest returns.
SuccessValue(parsed) == parsed

NoResult == [kind |-> "none", value |-> JNull, error |-> Thrown("NonError", "")]
Returned(v) == [kind |-> "returned", value |-> v, error |-> Thrown("NonError", "")]
Threw(e) == [kind |-> "threw", value |-> JNull, error |-> e]

NoRequest ==
    [endpoint |-> "", hasParams |-> FALSE, params |-> <<>>, url |-> "",
     headers |-> RequestHeaders(Str(""))]

\* TrackCatch rethrowing after it has logged.
TrackCatch_Rethrow(error, logged) ==
    [state |-> "rejected", log |-> Append(logged, error)]

\* Lines 94-97: the catch of trackDownload logs the error and does not throw.
TrackCatch(error, logged) ==
    [state |-> "resolved", log |-> Append(logged, error)]

\* Lines 90-92: the headers trackDownload gives to fetch.
TrackHeaders(key) == [Authorization |-> "Client-ID " \o JSString(key)]

NoTrackRequest == [url |-> "", headers |-> TrackHeaders(Str(""))]

NoTrackResult == [state |-> "none", fetched |-> "none", status |-> 0]


-----------------------------------------------------------------------------
(* truncateIfNeeded, formatters.ts lines 104-111.                           *)

Min(a, b) == IF a <= b THEN a ELSE b
Max(a, b) == IF a >= b THEN a ELSE b

\* String.prototype.substring(start, end): both are clamped to 0..length and
\* swapped when start > end.
Substring(s, start, end) ==
    LET a == Min(Max(start, 0), Len(s))
        b == Min(Max(end, 0), Len(s))
    IN  SubSeq(s, Min(a, b) + 1, Max(a, b))

\* truncateIfNeeded cutting at limit, not at limit - 100, in line 109.
truncateIfNeeded_CutAtLimit(content, limit) ==
    IF Len(content) <= limit THEN content
    ELSE Substring(content, 0, limit)
         \o "\n\n...[Content truncated due to length. Total: "
         \o ToString(Len(content)) \o " characters]"

\* truncateIfNeeded with `<` for `<=` in line 105.
truncateIfNeeded_Strict(content, limit) ==
    IF Len(content) < limit THEN content
    ELSE Substring(content, 0, limit - 100)
         \o "\n\n...[Content truncated due to length. Total: "
         \o ToString(Len(content)) \o " characters]"

truncateIfNeeded(content, limit) ==
    IF Len(content) <= limit THEN content
    ELSE Substring(content, 0, limit - 100)
         \o "\n\n...[Content truncated due to length. Total: "
         \o ToString(Len(content)) \o " characters]"

MaxContentLen == 120

MaxLimit == 115

RECURSIVE Repeat(_, _)
Repeat(s, times) == IF times = 0 THEN "" ELSE s \o Repeat(s, times - 1)

\* A text of n characters, the i-th being the last digit of i.
Content(n) == Repeat("1234567890", n \div 10) \o SubSeq("1234567890", 1, n % 10)

TruncInputs ==
    {[content |-> Content(n), limit |-> l, given |-> TRUE] :
        n \in 0..MaxContentLen, l \in 0..MaxLimit}

NoOutput == [done |-> FALSE, value |-> ""]

-----------------------------------------------------------------------------
(* Records of the Unsplash API (types.ts) and their markdown formatters     *)
(* (services/formatters.ts). An optional string field is a JavaScript value *)
(* (Undef when absent); a nested object carries `present`, FALSE when the   *)
(* record has no such property.                                             *)

UserRef(name, username) == [present |-> TRUE, name |-> name, username |-> username]
NoUserRef == [present |-> FALSE, name |-> "", username |-> ""]

HtmlLinks(html) == [present |-> TRUE, html |-> html]
NoHtmlLinks == [present |-> FALSE, html |-> ""]

PhotoLinks(html, download_location) ==
    [present |-> TRUE, html |-> html, download_location |-> download_location]
NoPhotoLinks == [present |-> FALSE, html |-> "", download_location |-> ""]

PhotoUrls(regular) == [present |-> TRUE, regular |-> regular]
NoPhotoUrls == [present |-> FALSE, regular |-> ""]

Location(name) == [present |-> TRUE, name |-> name]
NoLocation == [present |-> FALSE, name |-> Undef]

Tags(titles) == [present |-> TRUE, titles |-> titles]
NoTags == [present |-> FALSE, titles |-> <<>>]

\* The value a formatter returns, or the error it throws.
Formatted(text) == [ok |-> TRUE, text |-> text, error |-> Thrown("NonError", "")]
FormatThrew(error) == [ok |-> FALSE, text |-> "", error |-> error]

\* Reading property `prop` of undefined.
TypeErrorReading(prop) ==
    Thrown("TypeError", "Cannot read properties of undefined (reading '" \o prop \o "')")

\* a || b
OrElse(a, b) == IF Truthy(a) THEN a ELSE b

\* Array.prototype.join.
RECURSIVE Join(_, _)
Join(parts, sep) ==
    IF parts = <<>> THEN ""
    ELSE IF Len(parts) = 1 THEN parts[1]
    ELSE parts[1] \o sep \o Join(Tail(parts), sep)

AllDigits(s) == \A i \in 1..Len(s) : CharAt(s, i) \in Digits

\* new Date(iso).toLocaleDateString() for an ISO 8601 time stamp, in the
\* en-US locale and the UTC time zone: month/day/year without leading zeros;
\* "Invalid Date" for a string that is no time stamp.
toLocaleDateString(iso) ==
    IF /\ Len(iso) >= 10
       /\ AllDigits(SubSeq(iso, 1, 4)) /\ CharAt(iso, 5) = "-"
       /\ AllDigits(SubSeq(iso, 6, 7)) /\ CharAt(iso, 8) = "-"
       /\ AllDigits(SubSeq(iso, 9, 10))
    THEN ToString(DecimalValue(SubSeq(iso, 6, 7))) \o "/"
         \o ToString(DecimalValue(SubSeq(iso, 9, 10))) \o "/"
         \o SubSeq(iso, 1, 4)
    ELSE "Invalid Date"

\* Three digits of a group after the first.
Group3(n) ==
    IF n < 10 THEN "00" \o ToString(n)
    ELSE IF n < 100 THEN "0" \o ToString(n)
    ELSE ToString(n)

\* Number.prototype.toLocaleString() of an integer in the en-US locale:
\* groups of three digits separated by commas.
RECURSIVE toLocaleString(_)
toLocaleString(n) ==
    IF n < 0 THEN "-" \o toLocaleString(0 - n)
    ELSE IF n < 1000 THEN ToString(n)
    ELSE toLocaleString(n \div 1000) \o "," \o Group3(n % 1000)

\* Line 34: photo.tags.map(t => t.title).join(", ").
TagTitles(tags) == Join(tags.titles, ", ")

\* Lines 12-35: the parts of formatPhotoMarkdown, for a photo that has user,
\* links and urls.
PhotoParts(photo) ==
    <<"### " \o JSString(OrElse(photo.alt_description,
                                OrElse(photo.description, Str("Photo")))),
      "**ID**: " \o photo.id,
      "**Photographer**: " \o photo.user.name \o " (@" \o photo.user.username \o ")",
      "**Dimensions**: " \o ToString(photo.width) \o " × " \o ToString(photo.height) \o "px",
      "**Color**: " \o photo.color,
      "**Likes**: " \o ToString(photo.likes)>>
    \o (IF Truthy(photo.description)
        THEN <<"**Description**: " \o JSString(photo.description)>> ELSE <<>>)
    \o (IF photo.location.present /\ Truthy(photo.location.name)
        THEN <<"**Location**: " \o JSString(photo.location.name)>> ELSE <<>>)
    \o <<"**Created**: " \o toLocaleDateString(photo.created_at),
         "**Unsplash URL**: " \o photo.links.html,
         "**Download URL**: " \o photo.urls.regular>>
    \o (IF photo.tags.present /\ Len(photo.tags.titles) > 0
        THEN <<"**Tags**: " \o TagTitles(photo.tags)>> ELSE <<>>)

\* formatPhotoMarkdown, lines 11-38. Reading a property of an absent user,
\* links or urls throws a TypeError.
formatPhotoMarkdown(photo) ==
    IF ~photo.user.present THEN FormatThrew(TypeErrorReading("name"))
    ELSE IF ~photo.links.present THEN FormatThrew(TypeErrorReading("html"))
    ELSE IF ~photo.urls.present THEN FormatThrew(TypeErrorReading("regular"))
    ELSE Formatted(Join(PhotoParts(photo), "\n"))

\* Lines 41-53.
CollectionParts(collection) ==
    <<"### " \o collection.title,
      "**ID**: " \o collection.id,
      "**Curator**: " \o collection.user.name \o " (@" \o collection.user.username \o ")",
      "**Total Photos**: " \o ToString(collection.total_photos)>>
    \o (IF Truthy(collection.description)
        THEN <<"**Description**: " \o JSString(collection.description)>> ELSE <<>>)
    \o <<"**Published**: " \o toLocaleDateString(collection.published_at),
         "**Unsplash URL**: " \o collection.links.html>>

\* formatCollectionMarkdown, lines 40-56.
formatCollectionMarkdown(collection) ==
    IF ~collection.user.present THEN FormatThrew(TypeErrorReading("name"))
    ELSE IF ~collection.links.present THEN FormatThrew(TypeErrorReading("html"))
    ELSE Formatted(Join(CollectionParts(collection), "\n"))

\* UserParts emitting the Bio and Instagram lines whether or not the fields
\* are there.
UserParts_AlwaysAll(user) ==
    <<"### " \o user.name \o " (@" \o user.username \o ")",
      "**ID**: " \o user.id,
      "**Total Photos**: " \o ToString(user.total_photos),
      "**Total Likes**: " \o ToString(user.total_likes),
      "**Total Collections**: " \o ToString(user.total_collections),
      "**Bio**: " \o JSString(user.bio)>>
    \o (IF Truthy(user.location)
        THEN <<"**Location**: " \o JSString(user.location)>> ELSE <<>>)
    \o <<"**Instagram**: @" \o JSString(user.instagram_username)>>
    \o (IF Truthy(user.portfolio_url)
        THEN <<"**Portfolio**: " \o JSString(user.portfolio_url)>> ELSE <<>>)
    \o <<"**Unsplash Profile**: " \o user.links.html>>

\* Lines 59-83.
UserParts(user) ==
    <<"### " \o user.name \o " (@" \o user.username \o ")",
      "**ID**: " \o user.id,
      "**Total Photos**: " \o ToString(user.total_photos),
      "**Total Likes**: " \o ToString(user.total_likes),
      "**Total Collections**: " \o ToString(user.total_collections)>>
    \o (IF Truthy(user.bio)
        THEN <<"**Bio**: " \o JSString(user.bio)>> ELSE <<>>)
    \o (IF Truthy(user.location)
        THEN <<"**Location**: " \o JSString(user.location)>> ELSE <<>>)
    \o (IF Truthy(user.instagram_username)
        THEN <<"**Instagram**: @" \o JSString(user.instagram_username)>> ELSE <<>>)
    \o (IF Truthy(user.portfolio_url)
        THEN <<"**Portfolio**: " \o JSString(user.portfolio_url)>> ELSE <<>>)
    \o <<"**Unsplash Profile**: " \o user.links.html>>

\* formatUserMarkdown, lines 58-86.
formatUserMarkdown(user) ==
    IF ~user.links.present THEN FormatThrew(TypeErrorReading("html"))
    ELSE Formatted(Join(UserParts(user), "\n"))

\* SignPrefix that never writes a sign.
SignPrefix_Never(change) == ""

\* Lines 97-99: change > 0 ? "+" : "".
SignPrefix(change) == IF change > 0 THEN "+" ELSE ""

\* Lines 97-99: one line of the trends.
ChangeLine(label, change) ==
    "- " \o label \o " change: " \o SignPrefix(change) \o ToString(change)

\* formatStatisticsMarkdown, lines 88-102.
formatStatisticsMarkdown(stats) ==
    IF ~stats.downloads.present THEN FormatThrew(TypeErrorReading("total"))
    ELSE IF ~stats.views.present THEN FormatThrew(TypeErrorReading("total"))
    ELSE IF ~stats.likes.present THEN FormatThrew(TypeErrorReading("total"))
    ELSE Formatted(Join(
           <<"### Photo Statistics (ID: " \o stats.id \o ")",
             "**Total Downloads**: " \o toLocaleString(stats.downloads.total),
             "**Total Views**: " \o toLocaleString(stats.views.total),
             "**Total Likes**: " \o toLocaleString(stats.likes.total),
             "\n**Recent Trends**:",
             ChangeLine("Downloads", stats.downloads.historical.change),
             ChangeLine("Views", stats.views.historical.change),
             ChangeLine("Likes", stats.likes.historical.change)>>, "\n"))

\* formatters.test.ts: the records of the tests, with the optional fields
\* given as arguments.
Photo(id, alt_description, description, location, tags) ==
    [id |-> id,
     created_at |-> "2024-01-01T00:00:00Z",
     width |-> 1920,
     height |-> 1080,
     color |-> "#000000",
     blur_hash |-> "LEHV6nWB2yk8pyo0adR*.7kCMdnj",
     likes |-> 42,
     description |-> description,
     alt_description |-> alt_description,
     urls |-> PhotoUrls("https://example.com/regular"),
     links |-> PhotoLinks("https://unsplash.com/photos/" \o id,
                          "https://api.unsplash.com/photos/" \o id \o "/download"),
     user |-> UserRef("Test User", "testuser"),
     location |-> location,
     tags |-> tags]

Collection(id, description) ==
    [id |-> id,
     title |-> "Test Collection",
     description |-> description,
     published_at |-> "2024-01-01T00:00:00Z",
     total_photos |-> 25,
     share_key |-> "test-key",
     links |-> HtmlLinks("https://unsplash.com/collections/" \o id),
     user |-> UserRef("Test Curator", "curator")]

User(username, bio, location, instagram_username, portfolio_url) ==
    [id |-> "user-1",
     username |-> username,
     name |-> "Test User",
     first_name |-> "Test",
     bio |-> bio,
     location |-> location,
     total_likes |-> 1000,
     total_photos |-> 150,
     total_collections |-> 10,
     instagram_username |-> instagram_username,
     portfolio_url |-> portfolio_url,
     links |-> HtmlLinks("https://unsplash.com/@" \o username)]

Counter(total, change) ==
    [present |-> TRUE, total |-> total, historical |-> [change |-> change]]
NoCounter == [present |-> FALSE, total |-> 0, historical |-> [change |-> 0]]

Statistics(id, downloads, views, likes) ==
    [id |-> id, downloads |-> downloads, views |-> views, likes |-> likes]

\* An optional string field: absent, empty, or the text.
OptionalText(text) == {Undef, Str(""), Str(text)}

PhotoInputs ==
    {Photo("test-123", a, d, l, g) :
        a \in OptionalText("A test photo"),
        d \in OptionalText("Test photo"),
        l \in {NoLocation, Location(Undef), Location(Str("Test Location"))},
        g \in {NoTags, Tags(<<>>), Tags(<<"test", "photo">>)}}

CollectionInputs == {Collection("coll-123", d) : d \in OptionalText("A test collection")}

UserInputs ==
    {User("testuser", b, l, i, p) :
        b \in OptionalText("Professional photographer"),
        l \in OptionalText("New York"),
        i \in OptionalText("testuser"),
        p \in OptionalText("https://example.com")}

\* The changes of the tests (250, -100, 10) and the values around zero.
Changes == {-100, -1, 0, 1, 10, 250}

Totals == {0, 500, 5000, 50000, 1234567}

StatisticsInputs ==
    {Statistics("photo-123", Counter(t, d), Counter(50000, v), Counter(500, l)) :
        t \in Totals, d \in Changes, v \in Changes, l \in {0, 10}}

FormatInputs ==
    {[kind |-> "photo", record |-> r] : r \in PhotoInputs}
    \cup {[kind |-> "collection", record |-> r] : r \in CollectionInputs}
    \cup {[kind |-> "user", record |-> r] : r \in UserInputs}
    \cup {[kind |-> "statistics", record |-> r] : r \in StatisticsInputs}

\* The single-record formatter of a kind of record.
FormatRecord(kind, record) ==
    CASE kind = "photo" -> formatPhotoMarkdown(record)
      [] kind = "collection" -> formatCollectionMarkdown(record)
      [] kind = "user" -> formatUserMarkdown(record)
      [] kind = "statistics" -> formatStatisticsMarkdown(record)

NoFormatInput == [kind |-> "none", record |-> Undef]

NoFormatOutput == [done |-> FALSE, out |-> Formatted("")]

IdleFormat ==
    /\ fmtIn = NoFormatInput
    /\ fmtOut = NoFormatOutput

-----------------------------------------------------------------------------
(* Input validation: the zod schemas of schemas/index.ts, and the request   *)
(* each handler builds from the validated parameters (tools/*.ts).          *)

DEFAULT_PAGE_SIZE == 10

MAX_PAGE_SIZE == 30

\* A value of the tool's arguments as the caller sent it. A number is
\* whole + tenths / 10, so that numbers that are not integers can be sent.
RawAbsent == [t |-> "undefined", s |-> "", whole |-> 0, tenths |-> 0]
RawNull == [t |-> "null", s |-> "", whole |-> 0, tenths |-> 0]
RawString(s) == [t |-> "string", s |-> s, whole |-> 0, tenths |-> 0]
RawNumber(whole, tenths) == [t |-> "number", s |-> "", whole |-> whole, tenths |-> tenths]
RawInteger(n) == RawNumber(n, 0)

\* The fields of the schemas. `unbounded` says that a number or a string
\* has no maximum.
ZString(name, minimum, maximum, unbounded) ==
    [name |-> name, type |-> "string", minimum |-> minimum, maximum |-> maximum,
     unbounded |-> unbounded, values |-> {}, optional |-> FALSE, default |-> Undef]

ZOptionalString(name) ==
    [name |-> name, type |-> "string", minimum |-> 0, maximum |-> 0,
     unbounded |-> TRUE, values |-> {}, optional |-> TRUE, default |-> Undef]

ZInt(name, minimum, maximum, unbounded, default) ==
    [name |-> name, type |-> "int", minimum |-> minimum, maximum |-> maximum,
     unbounded |-> unbounded, values |-> {}, optional |-> FALSE, default |-> Num(default)]

ZEnum(name, values, default) ==
    [name |-> name, type |-> "enum", minimum |-> 0, maximum |-> 0,
     unbounded |-> TRUE, values |-> values, optional |-> FALSE, default |-> Str(default)]

ZOptionalEnum(name, values) ==
    [name |-> name, type |-> "enum", minimum |-> 0, maximum |-> 0,
     unbounded |-> TRUE, values |-> values, optional |-> TRUE, default |-> Undef]

\* types.ts lines 148-167.
ResponseFormat == {"json", "markdown"}
PhotoOrientation == {"landscape", "portrait", "squarish"}
PhotoOrderBy == {"relevant", "latest"}
ContentFilter == {"low", "high"}

QueryField == ZString("query", 1, 200, FALSE)
PageField == ZInt("page", 1, 0, TRUE, 1)
PerPageField == ZInt("per_page", 1, MAX_PAGE_SIZE, FALSE, DEFAULT_PAGE_SIZE)
ResponseFormatField == ZEnum("response_format", ResponseFormat, "markdown")
OrientationField == ZOptionalEnum("orientation", PhotoOrientation)
ListOrderField == ZEnum("order_by", {"latest", "oldest", "popular"}, "latest")

SearchPhotosSchema ==
    <<QueryField, PageField, PerPageField, OrientationField,
      ZEnum("content_filter", ContentFilter, "low"),
      ZOptionalString("color"),
      ZEnum("order_by", PhotoOrderBy, "relevant"),
      ResponseFormatField>>

GetPhotoSchema == <<ZString("id", 1, 0, TRUE), ResponseFormatField>>

GetRandomPhotoSchema ==
    <<ZOptionalString("query"), OrientationField,
      ZEnum("content_filter", ContentFilter, "low"),
      ZInt("count", 1, 30, FALSE, 1),
      ResponseFormatField>>

ListPhotosSchema == <<PageField, PerPageField, ListOrderField, ResponseFormatField>>

SearchCollectionsSchema == <<QueryField, PageField, PerPageField, ResponseFormatField>>

GetCollectionPhotosSchema ==
    <<ZString("id", 1, 0, TRUE), PageField, PerPageField, OrientationField,
      ResponseFormatField>>

SearchUsersSchema == <<QueryField, PageField, PerPageField, ResponseFormatField>>

GetUserPhotosSchema ==
    <<ZString("username", 1, 0, TRUE), PageField, PerPageField, ListOrderField,
      OrientationField, ResponseFormatField>>

GetPhotoStatisticsSchema == <<ZString("id", 1, 0, TRUE), ResponseFormatField>>

DownloadPhotoSchema == <<ZString("id", 1, 0, TRUE)>>

SearchTools ==
    {"unsplash_search_photos", "unsplash_search_collections", "unsplash_search_users"}

ListTools ==
    {"unsplash_list_photos", "unsplash_get_collection_photos", "unsplash_get_user_photos"}

PaginatedTools == SearchTools \cup ListTools

Tools ==
    PaginatedTools \cup {"unsplash_get_photo", "unsplash_get_random",
                         "unsplash_get_statistics", "unsplash_track_download"}

\* The inputSchema each tool is registered with.
InputSchema(tool) ==
    CASE tool = "unsplash_search_photos" -> SearchPhotosSchema
      [] tool = "unsplash_get_photo" -> GetPhotoSchema
      [] tool = "unsplash_get_random" -> GetRandomPhotoSchema
      [] tool = "unsplash_list_photos" -> ListPhotosSchema
      [] tool = "unsplash_get_statistics" -> GetPhotoStatisticsSchema
      [] tool = "unsplash_track_download" -> DownloadPhotoSchema
      [] tool = "unsplash_search_collections" -> SearchCollectionsSchema
      [] tool = "unsplash_get_collection_photos" -> GetCollectionPhotosSchema
      [] tool = "unsplash_search_users" -> SearchUsersSchema
      [] tool = "unsplash_get_user_photos" -> GetUserPhotosSchema

\* The names a handler reads from its parameters.
ParamNames ==
    {"query", "id", "username", "page", "per_page", "orientation", "color",
     "content_filter", "order_by", "count", "response_format"}

FieldNames(schema) == {schema[i].name : i \in 1..Len(schema)}

\* The value the arguments hold under a key, RawAbsent when the key is not
\* there.
RawOf(input, key) ==
    IF \E i \in 1..Len(input) : input[i].key = key
    THEN input[CHOOSE i \in 1..Len(input) : input[i].key = key].value
    ELSE RawAbsent

\* ZodNumber accepting numbers that are not integers.
FieldAccepts_NoIntCheck(field, raw) ==
    CASE raw.t = "undefined" -> field.optional \/ field.default # Undef
      [] field.type = "int" ->
            /\ raw.t = "number"
            /\ raw.whole >= field.minimum
            /\ field.unbounded \/ raw.whole <= field.maximum
      [] field.type = "string" ->
            /\ raw.t = "string"
            /\ Len(raw.s) >= field.minimum
            /\ field.unbounded \/ Len(raw.s) <= field.maximum
      [] field.type = "enum" -> raw.t = "string" /\ raw.s \in field.values

\* Whether a field of a schema accepts a value: .optional() and .default()
\* accept an absent value; z.number().int().min().max(), z.string().min()
\* .max() and the enums accept values of their type within their limits.
FieldAccepts(field, raw) ==
    CASE raw.t = "undefined" -> field.optional \/ field.default # Undef
      [] field.type = "int" ->
            /\ raw.t = "number"
            /\ raw.tenths = 0
            /\ raw.whole >= field.minimum
            /\ field.unbounded \/ raw.whole <= field.maximum
      [] field.type = "string" ->
            /\ raw.t = "string"
            /\ Len(raw.s) >= field.minimum
            /\ field.unbounded \/ Len(raw.s) <= field.maximum
      [] field.type = "enum" -> raw.t = "string" /\ raw.s \in field.values

\* The value a field parses to: the default (or undefined) for an absent
\* value, the value itself otherwise.
FieldParsed(field, raw) ==
    CASE raw.t = "undefined" -> field.default
      [] raw.t = "number" -> Num(raw.whole)
      [] OTHER -> Str(raw.s)

\* .strict(): no key outside the schema.
StrictKeys(schema, input) ==
    \A i \in 1..Len(input) : input[i].key \in FieldNames(schema)

\* schema.parse(input): whether the arguments are accepted, and the
\* parameters the handler is called with.
SchemaParse(schema, input) ==
    [ok |-> /\ StrictKeys(schema, input)
            /\ \A i \in 1..Len(schema) :
                   FieldAccepts(schema[i], RawOf(input, schema[i].name)),
     params |-> [name \in ParamNames |->
                   IF name \in FieldNames(schema)
                   THEN LET field == schema[CHOOSE i \in 1..Len(schema) :
                                               schema[i].name = name]
                        IN  FieldParsed(field, RawOf(input, name))
                   ELSE Undef]]

\* A property of the object given to makeRequest.
Prop(params, name) == <<[key |-> name, value |-> params[name]]>>

\* ...(params.x && { x: params.x }), or `if (params.x) requestParams.x = ...`.
PropIfTruthy(params, name) ==
    IF Truthy(params[name]) THEN Prop(params, name) ELSE <<>>

Request(endpoint, hasParams, props) ==
    [endpoint |-> endpoint, hasParams |-> hasParams, params |-> props]

\* The call of makeRequest each handler starts with.
HandlerRequest(tool, params) ==
    CASE tool = "unsplash_search_photos" ->
            Request("/search/photos", TRUE,
                    Prop(params, "query") \o Prop(params, "page")
                    \o Prop(params, "per_page") \o PropIfTruthy(params, "orientation")
                    \o PropIfTruthy(params, "color") \o Prop(params, "content_filter")
                    \o Prop(params, "order_by"))
      [] tool = "unsplash_get_photo" ->
            Request("/photos/" \o JSString(params["id"]), FALSE, <<>>)
      [] tool = "unsplash_get_random" ->
            Request("/photos/random", TRUE,
                    Prop(params, "content_filter") \o Prop(params, "count")
                    \o PropIfTruthy(params, "query")
                    \o PropIfTruthy(params, "orientation"))
      [] tool = "unsplash_list_photos" ->
            Request("/photos", TRUE,
                    Prop(params, "page") \o Prop(params, "per_page")
                    \o Prop(params, "order_by"))
      [] tool = "unsplash_get_statistics" ->
            Request("/photos/" \o JSString(params["id"]) \o "/statistics", FALSE, <<>>)
      [] tool = "unsplash_track_download" ->
            Request("/photos/" \o JSString(params["id"]), FALSE, <<>>)
      [] tool = "unsplash_search_collections" ->
            Request("/search/collections", TRUE,
                    Prop(params, "query") \o Prop(params, "page")
                    \o Prop(params, "per_page"))
      [] tool = "unsplash_get_collection_photos" ->
            Request("/collections/" \o JSString(params["id"]) \o "/photos", TRUE,
                    Prop(params, "page") \o Prop(params, "per_page")
                    \o PropIfTruthy(params, "orientation"))
      [] tool = "unsplash_search_users" ->
            Request("/search/users", TRUE,
                    Prop(params, "query") \o Prop(params, "page")
                    \o Prop(params, "per_page"))
      [] tool = "unsplash_get_user_photos" ->
            Request("/users/" \o JSString(params["username"]) \o "/photos", TRUE,
                    Prop(params, "page") \o Prop(params, "per_page")
                    \o Prop(params, "order_by") \o PropIfTruthy(params, "orientation"))

\* The URL the handler's call of makeRequest gives to fetch.
HandlerUrl(tool, params) ==
    BuildUrl(HandlerRequest(tool, params).endpoint,
             HandlerRequest(tool, params).hasParams,
             HandlerRequest(tool, params).params)

\* An entry of the arguments; no entry for an absent value.
Entry(key, raw) == IF raw = RawAbsent THEN <<>> ELSE <<[key |-> key, value |-> raw]>>

\* What callers send as page and per_page: nothing, values of another
\* type, numbers that are not integers, and integers on both sides of the
\* limits.
RawPages ==
    {RawAbsent, RawNull, RawString("1"), RawNumber(1, 5),
     RawInteger(-1), RawInteger(0), RawInteger(1), RawInteger(2)}

RawPerPages ==
    {RawAbsent, RawString("10"), RawNumber(10, 5), RawInteger(0), RawInteger(1),
     RawInteger(DEFAULT_PAGE_SIZE), RawInteger(MAX_PAGE_SIZE),
     RawInteger(MAX_PAGE_SIZE + 1)}

RawFormats == {RawAbsent, RawString("json"), RawString("markdown"), RawString("xml")}

\* A parameter of no schema.
UnknownEntries == {<<>>, <<[key |-> "foo", value |-> RawString("bar")]>>}

\* The string parameter a tool requires, "" for a tool that requires none.
RequiredKey(tool) ==
    CASE tool \in SearchTools -> "query"
      [] tool = "unsplash_get_user_photos" -> "username"
      [] tool \in {"unsplash_list_photos", "unsplash_get_random"} -> ""
      [] OTHER -> "id"

\* The strings sent as a photo id, a collection id or a username besides a
\* plain one: with a path separator, with a query string.
RawIdentifiers == {RawString("a/b"), RawString("a?page=0&")}

RawRequired(tool) ==
    IF RequiredKey(tool) = "" THEN {RawAbsent}
    ELSE {RawAbsent, RawString(""), RawString("nature")}
         \cup (IF RequiredKey(tool) \in {"id", "username"} THEN RawIdentifiers ELSE {})

PaginatedInputs(tool) ==
    {Entry(RequiredKey(tool), r) \o Entry("page", p) \o Entry("per_page", n)
     \o Entry("response_format", f) \o u :
        r \in RawRequired(tool), p \in RawPages, n \in RawPerPages,
        f \in RawFormats, u \in UnknownEntries}

RawCounts ==
    {RawAbsent, RawInteger(0), RawInteger(1), RawInteger(30), RawInteger(31),
     RawNumber(2, 5)}

OtherInputs(tool) ==
    {Entry(RequiredKey(tool), r) \o Entry("response_format", f)
     \o Entry("count", c) \o u :
        r \in RawRequired(tool),
        f \in IF tool = "unsplash_track_download" THEN {RawAbsent} ELSE RawFormats,
        c \in IF tool = "unsplash_get_random" THEN RawCounts ELSE {RawAbsent},
        u \in UnknownEntries}

ValidateInputs ==
    {[tool |-> tool, input |-> input] :
        tool \in PaginatedTools, input \in UNION {PaginatedInputs(t) : t \in PaginatedTools}}
    \cup {[tool |-> tool, input |-> input] :
        tool \in Tools \ PaginatedTools,
        input \in UNION {OtherInputs(t) : t \in Tools \ PaginatedTools}}

NoValidateInput == [tool |-> "", input |-> <<>>]

NoParams == [name \in ParamNames |-> Undef]

NoValidateOutput == [done |-> FALSE, ok |-> FALSE, params |-> NoParams, url |-> ""]

\* What the server does with the arguments of a tool call: the handler is
\* called with the parsed parameters when the schema accepts them, and not
\* at all otherwise.
Validated(tool, input) ==
    LET parsed == SchemaParse(InputSchema(tool), input)
    IN  IF parsed.ok
        THEN [done |-> TRUE, ok |-> TRUE, params |-> parsed.params,
              url |-> HandlerUrl(tool, parsed.params)]
        ELSE [done |-> TRUE, ok |-> FALSE, params |-> NoParams, url |-> ""]

IdleValidate ==
    /\ valIn = NoValidateInput
    /\ valOut = NoValidateOutput

-----------------------------------------------------------------------------
(* The tool handlers (tools/photos.ts, tools/collections-users.ts): what    *)
(* each does with the value makeRequest returned or the error it threw.     *)

CHARACTER_LIMIT == 15000

\* Line 115: one entry of formatPhotosListMarkdown.
PhotoListEntry(photo, index) ==
    ToString(index) \o ". **" \o JSString(OrElse(photo.alt_description, Str("Photo")))
    \o "** (ID: " \o photo.id \o ")\n   - By " \o photo.user.name
    \o " (@" \o photo.user.username \o ")\n   - " \o ToString(photo.width) \o " × "
    \o ToString(photo.height) \o "px | " \o ToString(photo.likes) \o " likes\n   - "
    \o photo.links.html

\* Line 126: one entry of formatCollectionsListMarkdown.
CollectionListEntry(collection, index) ==
    ToString(index) \o ". **" \o collection.title \o "** (ID: " \o collection.id
    \o ")\n   - By " \o collection.user.name \o " (@" \o collection.user.username
    \o ")\n   - " \o ToString(collection.total_photos) \o " photos\n   - "
    \o collection.links.html

\* Line 137: one entry of formatUsersListMarkdown.
UserListEntry(user, index) ==
    ToString(index) \o ". **" \o user.name \o "** (@" \o user.username \o ")\n   - "
    \o ToString(user.total_photos) \o " photos | " \o ToString(user.total_likes)
    \o " likes\n   - " \o user.links.html

\* The records of a list that lack an object the list formatter reads.
Unreadable(kind, items) ==
    {i \in 1..Len(items) :
        \/ kind # "user" /\ ~items[i].user.present
        \/ ~items[i].links.present}

ListEntry(kind, record, index) ==
    CASE kind = "photo" -> PhotoListEntry(record, index)
      [] kind = "collection" -> CollectionListEntry(record, index)
      [] kind = "user" -> UserListEntry(record, index)

\* formatListMarkdown joining the entries with "\n".
formatListMarkdown_SingleNewline(kind, items) ==
    IF Unreadable(kind, items) # {}
    THEN LET first == CHOOSE i \in Unreadable(kind, items) :
                          \A j \in Unreadable(kind, items) : i <= j
         IN  IF kind # "user" /\ ~items[first].user.present
             THEN FormatThrew(TypeErrorReading("name"))
             ELSE FormatThrew(TypeErrorReading("html"))
    ELSE Formatted(Join([i \in 1..Len(items) |-> ListEntry(kind, items[i], i)], "\n"))

\* formatPhotosListMarkdown, formatCollectionsListMarkdown and
\* formatUsersListMarkdown, lines 113-143: the entries joined by an empty
\* line; the first record without user or links makes map() throw.
formatListMarkdown(kind, items) ==
    IF Unreadable(kind, items) # {}
    THEN LET first == CHOOSE i \in Unreadable(kind, items) :
                          \A j \in Unreadable(kind, items) : i <= j
         IN  IF kind # "user" /\ ~items[first].user.present
             THEN FormatThrew(TypeErrorReading("name"))
             ELSE FormatThrew(TypeErrorReading("html"))
    ELSE Formatted(Join([i \in 1..Len(items) |-> ListEntry(kind, items[i], i)], "\n\n"))

\* A value makeRequest returns, or a value a handler serialises: a record,
\* an array of records, an object {photos: array}, or an object with total,
\* total_pages and results, to which page and per_page (of the handler's
\* output) or another property (extra) may be added. hasResults is FALSE
\* for an object that has no `results`.
NoRecord == [id |-> ""]

NoData ==
    [shape |-> "none", record |-> NoRecord, items |-> <<>>, total |-> 0,
     total_pages |-> 0, hasResults |-> FALSE, page |-> Undef, per_page |-> Undef,
     extra |-> Undef]

RecordData(record) == [NoData EXCEPT !.shape = "record", !.record = record]

ArrayData(items) == [NoData EXCEPT !.shape = "array", !.items = items]

PhotosObject(items) == [NoData EXCEPT !.shape = "photos", !.items = items]

SearchData(total, total_pages, results, extra) ==
    [NoData EXCEPT !.shape = "search", !.total = total, !.total_pages = total_pages,
                   !.hasResults = TRUE, !.items = results, !.extra = extra]

SearchDataNoResults(total, total_pages) ==
    [NoData EXCEPT !.shape = "search", !.total = total, !.total_pages = total_pages]

\* What a tool returns. For a JSON result, `payload` is the value whose
\* JSON.stringify(value, null, 2) is the text, and `structured` the
\* structuredContent; for a text result, `text` is the text.
TextResult(text) ==
    [isError |-> FALSE, json |-> FALSE, text |-> text, payload |-> NoData,
     structured |-> NoData]

JsonResult(payload, structured) ==
    [isError |-> FALSE, json |-> TRUE, text |-> "", payload |-> payload,
     structured |-> structured]

ErrorResult(text) ==
    [isError |-> TRUE, json |-> FALSE, text |-> text, payload |-> NoData,
     structured |-> NoData]

NoToolResult ==
    [isError |-> FALSE, json |-> FALSE, text |-> "", payload |-> NoData,
     structured |-> [NoData EXCEPT !.shape = "pending"]]

\* What the try block of a handler comes to: a result, or a thrown error.
Completed(returned) == [ok |-> TRUE, result |-> returned, error |-> Thrown("NonError", "")]
Raised(error) == [ok |-> FALSE, result |-> NoToolResult, error |-> error]

\* The text of a handler's catch: `Error ${verb}: ...`.
ErrorVerb(tool) ==
    CASE tool = "unsplash_search_photos" -> "searching photos"
      [] tool = "unsplash_get_photo" -> "fetching photo"
      [] tool = "unsplash_get_random" -> "fetching random photos"
      [] tool = "unsplash_list_photos" -> "listing photos"
      [] tool = "unsplash_get_statistics" -> "fetching statistics"
      [] tool = "unsplash_track_download" -> "tracking download"
      [] tool = "unsplash_search_collections" -> "searching collections"
      [] tool = "unsplash_get_collection_photos" -> "fetching collection photos"
      [] tool = "unsplash_search_users" -> "searching users"
      [] tool = "unsplash_get_user_photos" -> "fetching user photos"

\* HandlerCatch returning the message without the error flag.
HandlerCatch_NoFlag(tool, error) ==
    TextResult("Error " \o ErrorVerb(tool) \o ": "
               \o (IF IsError(error) THEN error.message ELSE "Unknown error occurred"))

\* The catch of every handler (photos.ts lines 151-160 and alike).
HandlerCatch(tool, error) ==
    ErrorResult("Error " \o ErrorVerb(tool) \o ": "
                \o (IF IsError(error) THEN error.message ELSE "Unknown error occurred"))

\* The kind of record a tool lists.
ListedKind(tool) ==
    CASE tool = "unsplash_search_collections" -> "collection"
      [] tool = "unsplash_search_users" -> "user"
      [] OTHER -> "photo"

\* The plural of the search texts.
Plural(kind) == kind \o "s"

SearchHeading(tool, query) ==
    CASE tool = "unsplash_search_photos" -> "# Search Results for \"" \o query \o "\"\n\n"
      [] tool = "unsplash_search_collections" ->
            "# Collection Search Results for \"" \o query \o "\"\n\n"
      [] tool = "unsplash_search_users" ->
            "# User Search Results for \"" \o query \o "\"\n\n"

\* SearchOutput handing the response on as it came.
SearchOutput_Passthrough(params, data) == data

\* The object a search handler builds, photos.ts lines 117-123.
SearchOutput(params, data) ==
    [NoData EXCEPT !.shape = "search", !.total = data.total,
                   !.total_pages = data.total_pages, !.hasResults = TRUE,
                   !.items = data.items, !.page = params["page"],
                   !.per_page = params["per_page"]]

\* A markdown text returned as it is when the formatter returned, the
\* formatter's error otherwise.
ReturnMarkdown(prefix, formatted, suffix) ==
    IF formatted.ok THEN Completed(TextResult(prefix \o formatted.text \o suffix))
    ELSE Raised(formatted.error)

\* A markdown text returned through truncateIfNeeded(markdown).
ReturnTruncated(prefix, formatted, suffix) ==
    IF formatted.ok
    THEN Completed(TextResult(
             truncateIfNeeded(prefix \o formatted.text \o suffix, CHARACTER_LIMIT)))
    ELSE Raised(formatted.error)

\* The three search handlers after makeRequest returned: photos.ts lines
\* 108-149, 608-648, 803-843.
SearchBody(tool, params, data) ==
    IF ~data.hasResults THEN Raised(TypeErrorReading("length"))
    ELSE IF Len(data.items) = 0
    THEN Completed(TextResult("No " \o Plural(ListedKind(tool)) \o " found for query: \""
                              \o JSString(params["query"]) \o "\""))
    ELSE IF params["response_format"] = Str("json")
    THEN Completed(JsonResult(SearchOutput(params, data), SearchOutput(params, data)))
    ELSE ReturnTruncated(
             SearchHeading(tool, JSString(params["query"]))
             \o "Found " \o toLocaleString(data.total) \o " " \o Plural(ListedKind(tool))
             \o " (Page " \o JSString(params["page"]) \o " of "
             \o ToString(data.total_pages) \o ")\n\n",
             formatListMarkdown(ListedKind(tool), data.items),
             IF params["page"].n < data.total_pages
             THEN "\n\n*Use page=" \o ToString(params["page"].n + 1)
                  \o " to see more results*"
             ELSE "")

\* The message of a list handler for an empty array.
NoPhotosText(tool, params) ==
    CASE tool = "unsplash_list_photos" -> "No photos found"
      [] tool = "unsplash_get_collection_photos" ->
            "No photos found in collection " \o JSString(params["id"])
      [] tool = "unsplash_get_user_photos" ->
            "No photos found for user: " \o JSString(params["username"])

ListHeading(tool, params) ==
    CASE tool = "unsplash_list_photos" ->
            "# Editorial Photos (" \o JSString(params["order_by"]) \o ")\n\n"
            \o "Page " \o JSString(params["page"]) \o "\n\n"
      [] tool = "unsplash_get_collection_photos" ->
            "# Photos from Collection " \o JSString(params["id"]) \o "\n\n"
            \o "Page " \o JSString(params["page"]) \o "\n\n"
      [] tool = "unsplash_get_user_photos" ->
            "# Photos by @" \o JSString(params["username"]) \o "\n\n"
            \o "Page " \o JSString(params["page"]) \o " (" \o JSString(params["order_by"])
            \o ")\n\n"

\* The three list handlers after makeRequest returned: photos.ts lines
\* 367-395, 708-736, 905-933.
ListBody(tool, params, data) ==
    IF Len(data.items) = 0 THEN Completed(TextResult(NoPhotosText(tool, params)))
    ELSE IF params["response_format"] = Str("json")
    THEN Completed(JsonResult(ArrayData(data.items), PhotosObject(data.items)))
    ELSE ReturnTruncated(ListHeading(tool, params),
                         formatListMarkdown("photo", data.items), "")

\* Line 295: Array.isArray(data) ? data : [data].
AsArray(data) == IF data.shape = "array" THEN data.items ELSE <<data.record>>

\* unsplash_get_random after makeRequest returned: lines 295-315.
RandomBody(params, data) ==
    IF params["response_format"] = Str("json")
    THEN Completed(JsonResult(ArrayData(AsArray(data)), PhotosObject(AsArray(data))))
    ELSE ReturnMarkdown(
             "# Random Photos"
             \o (IF Truthy(params["query"])
                 THEN " (" \o JSString(params["query"]) \o ")" ELSE "")
             \o "\n\n",
             formatListMarkdown("photo", AsArray(data)), "")

\* unsplash_get_photo and unsplash_get_statistics after makeRequest
\* returned: lines 212-229 and 440-457.
SingleBody(tool, params, data) ==
    IF params["response_format"] = Str("json")
    THEN Completed(JsonResult(data, data))
    ELSE ReturnMarkdown("",
                        IF tool = "unsplash_get_photo"
                        THEN formatPhotoMarkdown(data.record)
                        ELSE formatStatisticsMarkdown(data.record),
                        "")

\* The try block of a handler from the return of makeRequest on, for the
\* tools that make one call.
HandlerBody(tool, params, data) ==
    CASE tool \in SearchTools -> SearchBody(tool, params, data)
      [] tool \in ListTools -> ListBody(tool, params, data)
      [] tool = "unsplash_get_random" -> RandomBody(params, data)
      [] OTHER -> SingleBody(tool, params, data)

\* What the handler returns once makeRequest has returned `data`.
HandlerResult(tool, params, data) ==
    IF HandlerBody(tool, params, data).ok THEN HandlerBody(tool, params, data).result
    ELSE HandlerCatch(tool, HandlerBody(tool, params, data).error)

\* unsplash_track_download, line 507: the argument of trackDownload; reading
\* download_location of absent links throws.
DownloadLocationOf(photo) ==
    IF photo.links.present THEN Formatted(photo.links.download_location)
    ELSE FormatThrew(TypeErrorReading("download_location"))

\* unsplash_track_download, lines 509-514: the result after trackDownload
\* returned.
TrackedResult(params, photo) ==
    IF photo.urls.present
    THEN TextResult("Download tracked for photo " \o JSString(params["id"])
                    \o ". You can download the photo from: " \o photo.urls.regular)
    ELSE HandlerCatch("unsplash_track_download", TypeErrorReading("regular"))

\* The records the API answers with: the photo of the tests, a photo with
\* no optional field, a photo with a long alt text, and photos that lack an
\* object the handlers read.
LongText == Repeat(Repeat("Lorem ipsum dolor sit amet consectetur. ", 10), 40)

TestPhoto ==
    Photo("test-123", Str("A test photo"), Str("Test photo"),
          Location(Str("Test Location")), Tags(<<"test", "photo">>))

BarePhoto == Photo("bare-456", Undef, Undef, NoLocation, NoTags)

LongPhoto == Photo("long-789", Str(LongText), Undef, NoLocation, NoTags)

PhotoWithoutUser == [BarePhoto EXCEPT !.user = NoUserRef]

PhotoWithoutLinks == [BarePhoto EXCEPT !.links = NoPhotoLinks]

PhotoWithoutUrls == [BarePhoto EXCEPT !.urls = NoPhotoUrls]

ListedPhotos == {TestPhoto, BarePhoto, LongPhoto, PhotoWithoutUser}

ListedCollections ==
    {Collection("coll-123", Str("A test collection")),
     [Collection("coll-456", Undef) EXCEPT !.user = NoUserRef]}

ListedUsers ==
    {User("testuser", Str("Professional photographer"), Str("New York"),
          Str("testuser"), Str("https://example.com")),
     [User("nolinks", Undef, Undef, Undef, Undef) EXCEPT !.links = NoHtmlLinks]}

MaxItems == 2

\* The lists of a kind of record the API answers with.
ListsOf(kind) ==
    CASE kind = "photo" -> SeqsUpTo(ListedPhotos, MaxItems)
      [] kind = "collection" -> SeqsUpTo(ListedCollections, MaxItems)
      [] kind = "user" -> SeqsUpTo(ListedUsers, MaxItems)

MaxListLen == 3

\* The records given to the list formatters: with and without the optional
\* alt_description, and with an empty one.
ListFormatRecords(kind) ==
    CASE kind = "photo" ->
            {TestPhoto, BarePhoto, Photo("empty-alt", Str(""), Undef, NoLocation, NoTags)}
      [] kind = "collection" ->
            {Collection("coll-123", Str("A test collection")), Collection("coll-456", Undef)}
      [] kind = "user" ->
            {User("testuser", Str("Professional photographer"), Str("New York"),
                  Str("testuser"), Str("https://example.com")),
             User("another", Undef, Undef, Undef, Undef)}

\* The calls of the three list formatters.
FormatListInputs ==
    {[kind |-> kind \o "s", record |-> [items |-> items]] :
        kind \in {"photo"}, items \in SeqsUpTo(ListFormatRecords("photo"), MaxListLen)}
    \cup {[kind |-> kind \o "s", record |-> [items |-> items]] :
        kind \in {"collection"},
        items \in SeqsUpTo(ListFormatRecords("collection"), MaxListLen)}
    \cup {[kind |-> kind \o "s", record |-> [items |-> items]] :
        kind \in {"user"}, items \in SeqsUpTo(ListFormatRecords("user"), MaxListLen)}

\* The kind of record a list formatter takes.
ListItemKind(kind) == SubSeq(kind, 1, Len(kind) - 1)

\* A call of a formatter: of one record, or of a list of records.
FormatCall(kind, record) ==
    IF kind \in {"photos", "collections", "users"}
    THEN formatListMarkdown(ListItemKind(kind), record.items)
    ELSE FormatRecord(kind, record)

\* total and total_pages of the search answers.
SearchTotals == {[total |-> 0, pages |-> 0], [total |-> 2, pages |-> 1],
                 [total |-> 12345, pages |-> 1235]}

TestStatistics ==
    Statistics("photo-123", Counter(5000, 250), Counter(50000, -100), Counter(500, 10))

\* The values makeRequest returns to a tool.
ResponseData(tool) ==
    CASE tool \in SearchTools ->
            {SearchData(t.total, t.pages, items, extra) :
                t \in SearchTotals, items \in ListsOf(ListedKind(tool)),
                extra \in {Undef, Str("rate-limited")}}
            \cup {SearchDataNoResults(0, 0)}
      [] tool \in ListTools -> {ArrayData(items) : items \in ListsOf("photo")}
      [] tool = "unsplash_get_random" ->
            {ArrayData(items) : items \in ListsOf("photo")}
            \cup {RecordData(photo) : photo \in ListedPhotos}
      [] tool = "unsplash_get_statistics" ->
            {RecordData(TestStatistics),
             RecordData(Statistics(LongText, Counter(1, 0), Counter(2, 0), Counter(3, 0))),
             RecordData(Statistics("photo-123", Counter(1, 0), NoCounter, Counter(3, 0)))}
      [] OTHER ->
            {RecordData(photo) :
                photo \in {TestPhoto, BarePhoto, LongPhoto, PhotoWithoutUser,
                           PhotoWithoutLinks, PhotoWithoutUrls}}

\* The errors makeRequest throws to a tool: for a response that is not ok,
\* and for a fetch that failed.
RequestErrors ==
    {StatusError(401, "{\"errors\":[\"Unauthorized\"]}"),
     StatusError(404, ""),
     OuterCatch(Thrown("TypeError", "fetch failed")),
     OuterCatch(Thrown("NonError", "timeout"))}

\* The value of the string a tool requires.
RequiredValue(tool) ==
    CASE tool \in SearchTools -> "nature"
      [] tool = "unsplash_get_user_photos" -> "testuser"
      [] tool = "unsplash_get_collection_photos" -> "coll-123"
      [] OTHER -> "test-123"

\* The arguments the tools are called with: accepted ones in both formats
\* and, for the paginated tools, on the first and the second page; and
\* arguments that validation rejects.
ToolInputs(tool) ==
    {(IF RequiredKey(tool) = "" THEN <<>>
      ELSE Entry(RequiredKey(tool), RawString(RequiredValue(tool))))
     \o Entry("page", p) \o Entry("response_format", f) \o u :
        p \in IF tool \in PaginatedTools THEN {RawAbsent, RawInteger(2), RawInteger(0)}
              ELSE {RawAbsent},
        f \in IF tool = "unsplash_track_download" THEN {RawAbsent}
              ELSE {RawAbsent, RawString("json")},
        u \in UnknownEntries}

NoToolCall == [tool |-> "", input |-> <<>>, params |-> NoParams]

NoToolThrown == [present |-> FALSE, error |-> Thrown("NonError", "")]

\* A call one of the client's methods makes to the network.
Outbound(via, url) == [via |-> via, url |-> url]

IdleTools ==
    /\ toolPc = "idle"
    /\ toolCall = NoToolCall
    /\ toolData = NoData
    /\ toolThrown = NoToolThrown
    /\ outbound = <<>>
    /\ toolResult = NoToolResult

-----------------------------------------------------------------------------
(* The client as a state machine: one step per await.                       *)

CtorArgs == {Undef, Str(""), Str("test-key"), Str("other-key")}

\* The calls of makeRequest the client receives.
CallInputs ==
    {[endpoint |-> "/search/photos", hasParams |-> TRUE,
      params |-> <<[key |-> "query", value |-> Str("blue sky")],
                   [key |-> "page", value |-> Num(1)]>>],
     [endpoint |-> "/search/photos", hasParams |-> TRUE,
      params |-> <<[key |-> "query", value |-> Str("nature")],
                   [key |-> "page", value |-> Undef]>>],
     [endpoint |-> "/photos/abc123", hasParams |-> FALSE, params |-> <<>>]}

DownloadLocations == {"https://api.unsplash.com/photos/test/download"}

\* What fetch can reject with in trackDownload.
TrackThrowables == {Thrown("Error", "Network error"), Thrown("NonError", "timeout")}

MaxLog == 1

IdleClient ==
    /\ ctorArg = Undef
    /\ ctorState = "new"
    /\ accessKey = Undef
    /\ pc = "idle"
    /\ req = NoRequest
    /\ resp = NoResponse
    /\ fetchThrown = NoThrown
    /\ result = NoResult
    /\ fetchCount = 0
    /\ tpc = "idle"
    /\ treq = NoTrackRequest
    /\ tresult = NoTrackResult
    /\ log = <<>>

NoUrlInput == [endpoint |-> "", hasParams |-> FALSE, params |-> <<>>]

NoTruncInput == [content |-> "", limit |-> 0, given |-> TRUE]

\* The pure functions of the client not applied yet.
IdlePure ==
    /\ urlIn = NoUrlInput
    /\ urlOut = NoOutput
    /\ truncIn = NoTruncInput
    /\ truncOut = NoOutput

\* The variables of the other specifications at rest.
\* No operation in flight.
IdleOperations == ops = <<>>

IdleOthers == IdleFormat /\ IdleValidate /\ IdleTools /\ IdleOperations

Init ==
    /\ IdleClient
    /\ urlIn = NoUrlInput
    /\ urlOut = NoOutput
    /\ truncIn = NoTruncInput
    /\ truncOut = NoOutput
    /\ IdleOthers

\* new UnsplashClient(key), lines 19-26.
Construct(key) ==
    /\ ctorState = "new"
    /\ ctorArg' = key
    /\ IF ConstructorAccepts(key)
       THEN ctorState' = "ok" /\ accessKey' = key
       ELSE ctorState' = "threw" /\ accessKey' = Undef
    /\ UNCHANGED <<callVars, trackVars, urlVars, truncVars, otherVars>>

\* makeRequest up to its first await: lines 33-52.
MakeRequest(in) ==
    /\ ctorState = "ok"
    /\ pc \in {"idle", "done"}
    /\ req' = [endpoint |-> in.endpoint, hasParams |-> in.hasParams, params |-> in.params,
               url |-> BuildUrl(in.endpoint, in.hasParams, in.params),
               headers |-> RequestHeaders(accessKey)]
    /\ resp' = NoResponse
    /\ fetchThrown' = NoThrown
    /\ result' = NoResult
    /\ fetchCount' = 1
    /\ pc' = "fetch"
    /\ UNCHANGED <<clientVars, trackVars, urlVars, truncVars, otherVars>>

\* fetch resolves with a response: lines 47-55 or 68, up to the next await.
FetchResolve(status, body) ==
    /\ pc = "fetch"
    /\ resp' = [present |-> TRUE, status |-> status, ok |-> ResponseOk(status),
                body |-> body, read |-> "pending"]
    /\ pc' = IF ResponseOk(status) THEN "json" ELSE "text"
    /\ UNCHANGED <<clientVars, req, fetchThrown, result, fetchCount, trackVars, urlVars, truncVars, otherVars>>

\* FetchReject calling fetch a second time before it gives up.
FetchReject_Retry(error) ==
    /\ pc = "fetch"
    /\ fetchThrown' = [present |-> TRUE, error |-> error]
    /\ IF fetchCount < 2
       THEN /\ fetchCount' = fetchCount + 1
            /\ pc' = "fetch"
            /\ UNCHANGED result
       ELSE /\ result' = Threw(OuterCatch(error))
            /\ pc' = "done"
            /\ UNCHANGED fetchCount
    /\ UNCHANGED <<clientVars, req, resp, trackVars, urlVars, truncVars, otherVars>>

\* fetch rejects: the outer catch, lines 69-83.
FetchReject(error) ==
    /\ pc = "fetch"
    /\ fetchThrown' = [present |-> TRUE, error |-> error]
    /\ result' = Threw(OuterCatch(error))
    /\ pc' = "done"
    /\ UNCHANGED <<clientVars, req, resp, fetchCount, trackVars, urlVars, truncVars, otherVars>>

\* response.text() resolves: lines 55-65, and the throw of line 65 passes
\* through the outer catch.
TextResolve ==
    /\ pc = "text"
    /\ resp' = [resp EXCEPT !.read = "ok"]
    /\ result' = Threw(OuterCatch(StatusError(resp.status, resp.body)))
    /\ pc' = "done"
    /\ UNCHANGED <<clientVars, req, fetchThrown, fetchCount, trackVars, urlVars, truncVars, otherVars>>

\* response.text() rejects: the outer catch.
TextReject(error) ==
    /\ pc = "text"
    /\ resp' = [resp EXCEPT !.read = "failed"]
    /\ result' = Threw(OuterCatch(error))
    /\ pc' = "done"
    /\ UNCHANGED <<clientVars, req, fetchThrown, fetchCount, trackVars, urlVars, truncVars, otherVars>>

\* response.json() resolves with the parsed body: line 68.
JsonResolve ==
    /\ pc = "json"
    /\ JSONParse(resp.body).ok
    /\ resp' = [resp EXCEPT !.read = "ok"]
    /\ result' = Returned(SuccessValue(JSONParse(resp.body).value))
    /\ pc' = "done"
    /\ UNCHANGED <<clientVars, req, fetchThrown, fetchCount, trackVars, urlVars, truncVars, otherVars>>

\* response.json() rejects, the body unreadable or not JSON: the outer catch.
JsonReject(error) ==
    /\ pc = "json"
    /\ error = JsonSyntaxError => ~JSONParse(resp.body).ok
    /\ resp' = [resp EXCEPT !.read = "failed"]
    /\ result' = Threw(OuterCatch(error))
    /\ pc' = "done"
    /\ UNCHANGED <<clientVars, req, fetchThrown, fetchCount, trackVars, urlVars, truncVars, otherVars>>

\* trackDownload up to its await: lines 88-93.
TrackDownload(downloadLocation) ==
    /\ ctorState = "ok"
    /\ tpc \in {"idle", "done"}
    /\ Len(log) < MaxLog
    /\ treq' = [url |-> downloadLocation, headers |-> TrackHeaders(accessKey)]
    /\ tresult' = NoTrackResult
    /\ tpc' = "fetch"
    /\ UNCHANGED <<clientVars, callVars, log, urlVars, truncVars, otherVars>>

\* fetch resolves, whatever the status: the response is not looked at.
TrackFetchResolve(status) ==
    /\ tpc = "fetch"
    /\ tresult' = [state |-> "resolved", fetched |-> "response", status |-> status]
    /\ tpc' = "done"
    /\ UNCHANGED <<clientVars, callVars, treq, log, urlVars, truncVars, otherVars>>

\* fetch rejects: the catch of lines 94-97.
TrackFetchReject(error) ==
    /\ tpc = "fetch"
    /\ tresult' = [state |-> TrackCatch(error, log).state, fetched |-> "failed", status |-> 0]
    /\ log' = TrackCatch(error, log).log
    /\ tpc' = "done"
    /\ UNCHANGED <<clientVars, callVars, treq, urlVars, truncVars, otherVars>>

Next ==
    \/ \E key \in CtorArgs : Construct(key)
    \/ \E in \in CallInputs : MakeRequest(in)
    \/ \E status \in StatusCodes, body \in Bodies : FetchResolve(status, body)
    \/ \E error \in FetchThrowables : FetchReject(error)
    \/ TextResolve
    \/ \E error \in BodyThrowables : TextReject(error)
    \/ JsonResolve
    \/ \E error \in BodyThrowables \cup {JsonSyntaxError} : JsonReject(error)
    \/ \E url \in DownloadLocations : TrackDownload(url)
    \/ \E status \in StatusCodes : TrackFetchResolve(status)
    \/ \E error \in TrackThrowables : TrackFetchReject(error)

Spec == Init /\ [][Next]_vars

-----------------------------------------------------------------------------
(* The URL builder applied to drawn inputs.                                 *)

InitUrl ==
    /\ IdleClient
    /\ urlIn \in UrlInputs
    /\ urlOut = NoOutput
    /\ truncIn = NoTruncInput
    /\ truncOut = NoOutput
    /\ IdleOthers

RunBuildUrl ==
    /\ ~urlOut.done
    /\ urlOut' = [done |-> TRUE,
                  value |-> BuildUrl(urlIn.endpoint, urlIn.hasParams, urlIn.params)]
    /\ UNCHANGED <<clientVars, callVars, trackVars, urlIn, truncVars, otherVars>>

NextUrl == RunBuildUrl

SpecUrl == InitUrl /\ [][NextUrl]_vars

-----------------------------------------------------------------------------
(* truncateIfNeeded applied to drawn inputs.                                *)

\* The parameter `limit: number = CHARACTER_LIMIT`: the default is bound when
\* the caller leaves the argument out.
LimitOrDefault(args) == IF args.given THEN args.limit ELSE CHARACTER_LIMIT

\* Texts around CHARACTER_LIMIT, for the calls that give no limit.
DefaultLimitContents ==
    { Content(MaxContentLen),
      SubSeq(LongText, 1, CHARACTER_LIMIT - 1),
      SubSeq(LongText, 1, CHARACTER_LIMIT),
      SubSeq(LongText, 1, CHARACTER_LIMIT + 1),
      LongText }

\* truncateIfNeeded(content): the limit field is not read.
DefaultLimitInputs ==
    {[content |-> c, limit |-> 0, given |-> FALSE] : c \in DefaultLimitContents}

InitTruncate ==
    /\ IdleClient
    /\ urlIn = NoUrlInput
    /\ urlOut = NoOutput
    /\ truncIn \in TruncInputs \cup DefaultLimitInputs
    /\ truncOut = NoOutput
    /\ IdleOthers

RunTruncate ==
    /\ ~truncOut.done
    /\ truncOut' = [done |-> TRUE,
                    value |-> truncateIfNeeded(truncIn.content, LimitOrDefault(truncIn))]
    /\ UNCHANGED <<clientVars, callVars, trackVars, urlVars, truncIn, otherVars>>

NextTruncate == RunTruncate

SpecTruncate == InitTruncate /\ [][NextTruncate]_vars

-----------------------------------------------------------------------------
(* The single-record formatters applied to drawn records.                   *)

InitFormat ==
    /\ IdleClient
    /\ IdlePure
    /\ IdleValidate
    /\ IdleTools
    /\ IdleOperations
    /\ fmtIn \in FormatInputs \cup FormatListInputs
    /\ fmtOut = NoFormatOutput

RunFormat ==
    /\ ~fmtOut.done
    /\ fmtOut' = [done |-> TRUE, out |-> FormatCall(fmtIn.kind, fmtIn.record)]
    /\ UNCHANGED <<clientVars, callVars, trackVars, urlVars, truncVars, opsVars, fmtIn, valVars, toolVars>>

NextFormat == RunFormat

SpecFormat == InitFormat /\ [][NextFormat]_vars

-----------------------------------------------------------------------------
(* Input validation applied to drawn arguments.                             *)

InitValidate ==
    /\ IdleClient
    /\ IdlePure
    /\ IdleFormat
    /\ IdleTools
    /\ IdleOperations
    /\ valIn \in ValidateInputs
    /\ valOut = NoValidateOutput

RunValidate ==
    /\ ~valOut.done
    /\ valOut' = Validated(valIn.tool, valIn.input)
    /\ UNCHANGED <<clientVars, callVars, trackVars, urlVars, truncVars, opsVars, fmtVars, valIn, toolVars>>

NextValidate == RunValidate

SpecValidate == InitValidate /\ [][NextValidate]_vars

-----------------------------------------------------------------------------
(* A tool call as a state machine: one step per await of the handler, over  *)
(* a constructed client.                                                    *)

InitTools ==
    /\ ctorArg = Str("test-key")
    /\ ctorState = "ok"
    /\ accessKey = Str("test-key")
    /\ pc = "idle"
    /\ req = NoRequest
    /\ resp = NoResponse
    /\ fetchThrown = NoThrown
    /\ result = NoResult
    /\ fetchCount = 0
    /\ tpc = "idle"
    /\ treq = NoTrackRequest
    /\ tresult = NoTrackResult
    /\ log = <<>>
    /\ IdlePure
    /\ IdleFormat
    /\ IdleValidate
    /\ IdleTools
    /\ IdleOperations

\* A tool is called: the arguments are validated; the handler runs for
\* accepted arguments only, up to its `await client.makeRequest(...)`.
ToolCall(tool, input) ==
    /\ toolPc = "idle"
    /\ LET parsed == SchemaParse(InputSchema(tool), input)
       IN  IF parsed.ok
           THEN /\ toolCall' = [tool |-> tool, input |-> input, params |-> parsed.params]
                /\ outbound' = Append(outbound,
                                      Outbound("makeRequest", HandlerUrl(tool, parsed.params)))
                /\ toolPc' = "request"
           ELSE /\ toolCall' = [tool |-> tool, input |-> input, params |-> NoParams]
                /\ outbound' = outbound
                /\ toolPc' = "rejected"
    /\ UNCHANGED <<clientVars, callVars, trackVars, urlVars, truncVars, opsVars, fmtVars, valVars,
                   toolData, toolThrown, toolResult>>

\* makeRequest returns: the rest of the try block. unsplash_track_download
\* goes on to `await client.trackDownload(photo.links.download_location)`,
\* which calls fetch (unsplash-client.ts lines 88-93).
RequestReturns(data) ==
    /\ toolPc = "request"
    /\ toolData' = data
    /\ IF toolCall.tool # "unsplash_track_download"
       THEN /\ toolResult' = HandlerResult(toolCall.tool, toolCall.params, data)
            /\ toolPc' = "done"
            /\ UNCHANGED <<outbound, trackVars>>
       ELSE IF DownloadLocationOf(data.record).ok
       THEN /\ treq' = [url |-> DownloadLocationOf(data.record).text,
                        headers |-> TrackHeaders(accessKey)]
            /\ tresult' = NoTrackResult
            /\ tpc' = "fetch"
            /\ outbound' = Append(outbound,
                                  Outbound("trackDownload",
                                           DownloadLocationOf(data.record).text))
            /\ toolPc' = "track"
            /\ UNCHANGED <<toolResult, log>>
       ELSE /\ toolResult' = HandlerCatch(toolCall.tool, DownloadLocationOf(data.record).error)
            /\ toolPc' = "done"
            /\ UNCHANGED <<outbound, trackVars>>
    /\ UNCHANGED <<clientVars, callVars, urlVars, truncVars, opsVars, fmtVars, valVars,
                   toolCall, toolThrown>>

\* RequestThrows going on to track the download.
RequestThrows_StillTracks(error) ==
    /\ toolPc = "request"
    /\ toolThrown' = [present |-> TRUE, error |-> error]
    /\ toolResult' = HandlerCatch(toolCall.tool, error)
    /\ outbound' = Append(outbound, Outbound("trackDownload", ""))
    /\ toolPc' = "done"
    /\ UNCHANGED <<clientVars, callVars, trackVars, urlVars, truncVars, opsVars, fmtVars, valVars,
                   toolCall, toolData>>

\* makeRequest throws: the catch of the handler.
RequestThrows(error) ==
    /\ toolPc = "request"
    /\ toolThrown' = [present |-> TRUE, error |-> error]
    /\ toolResult' = HandlerCatch(toolCall.tool, error)
    /\ outbound' = outbound
    /\ toolPc' = "done"
    /\ UNCHANGED <<clientVars, callVars, trackVars, urlVars, truncVars, opsVars, fmtVars, valVars,
                   toolCall, toolData>>

\* trackDownload has returned or thrown: photos.ts lines 509-522.
TrackReturns ==
    /\ toolPc = "track"
    /\ tpc = "done"
    /\ toolResult' =
           IF tresult.state = "resolved"
           THEN TrackedResult(toolCall.params, toolData.record)
           ELSE HandlerCatch(toolCall.tool, log[Len(log)])
    /\ toolPc' = "done"
    /\ UNCHANGED <<clientVars, callVars, trackVars, urlVars, truncVars, opsVars, fmtVars, valVars,
                   toolCall, toolData, toolThrown, outbound>>

NextTools ==
    \/ \E tool \in Tools : \E input \in ToolInputs(tool) : ToolCall(tool, input)
    \/ \E data \in ResponseData(toolCall.tool) : RequestReturns(data)
    \/ \E error \in RequestErrors : RequestThrows(error)
    \/ \E status \in StatusCodes : TrackFetchResolve(status)
    \/ \E error \in TrackThrowables : TrackFetchReject(error)
    \/ TrackReturns

SpecTools == InitTools /\ [][NextTools]_vars

-----------------------------------------------------------------------------
(* Properties of makeRequest (specification Spec).                          *)

\* The call has settled after fetch resolved with a response that is not ok.
SettledNotOk == pc = "done" /\ resp.present /\ ~resp.ok

\* The call has settled after fetch rejected.
SettledTransportFailure == pc = "done" /\ fetchThrown.present

\* C1: whenever a response that is not ok was obtained, whatever its body
\* and whether or not the body could be read, makeRequest throws an
\* UnsplashAPIError whose statusCode is the response's status.
C1_StatusOfEveryNotOkResponse ==
    SettledNotOk =>
        /\ result.kind = "threw"
        /\ IsUnsplashAPIError(result.error)
        /\ result.error.statusCode = Num(resp.status)

\* C2 as stated: whenever fetch fails before a response is obtained,
\* whatever value it throws, makeRequest throws an UnsplashAPIError with no
\* statusCode and a message that starts with "Network error".
C2_AlwaysNetworkPrefix ==
    SettledTransportFailure =>
        /\ result.kind = "threw"
        /\ IsUnsplashAPIError(result.error)
        /\ result.error.statusCode = Undef
        /\ StartsWith(result.error.message, "Network error")

\* C2, amended: whenever fetch fails before a response is obtained,
\* makeRequest throws an UnsplashAPIError. If the value thrown is an Error
\* that is not an UnsplashAPIError, the error has no statusCode and the
\* message "Network error: " followed by that Error's message; if it is not
\* an Error at all, the error has no statusCode and the message "Unknown
\* error occurred", without the prefix; if it is an UnsplashAPIError, that
\* same error is thrown.
C2_TransportFailureByThrownValue ==
    SettledTransportFailure =>
        LET thrown == fetchThrown.error
        IN  /\ result.kind = "threw"
            /\ result.error.cls = "UnsplashAPIError"
            /\ thrown.cls = "UnsplashAPIError" => result.error = thrown
            /\ thrown.cls \in {"Error", "TypeError"} =>
                   /\ result.error.statusCode = Undef
                   /\ result.error.message = "Network error: " \o thrown.message
            /\ thrown.cls = "NonError" =>
                   /\ result.error.statusCode = Undef
                   /\ result.error.message = "Unknown error occurred"

\* fetch rejected with a value that is not an Error and the call threw the
\* "Unknown error occurred" error.
C2_Witness ==
    /\ SettledTransportFailure
    /\ fetchThrown.error.cls = "NonError"
    /\ result.kind = "threw"
    /\ result.error.message = "Unknown error occurred"


-----------------------------------------------------------------------------
(* Properties of the query string (specification SpecUrl).                  *)

\* The position of the first occurrence of the character c in s, 0 if none.
FirstIndexOf(s, c) ==
    LET hits == {i \in 1..Len(s) : CharAt(s, i) = c}
    IN  IF hits = {} THEN 0 ELSE CHOOSE i \in hits : \A j \in hits : i <= j

\* The query string of a URL: what follows its first "?".
QueryOf(url) ==
    IF FirstIndexOf(url, "?") = 0 THEN ""
    ELSE SubSeq(url, FirstIndexOf(url, "?") + 1, Len(url))

\* s cut at every occurrence of the character c.
RECURSIVE SplitOn(_, _)
SplitOn(s, c) ==
    IF FirstIndexOf(s, c) = 0 THEN <<s>>
    ELSE <<SubSeq(s, 1, FirstIndexOf(s, c) - 1)>>
         \o SplitOn(SubSeq(s, FirstIndexOf(s, c) + 1, Len(s)), c)

\* The character a percent escape stands for.
PercentDecoded(escape) ==
    CASE escape = "%26" -> "&"
      [] escape = "%3D" -> "="
      [] escape = "%2B" -> "+"
      [] escape = "%25" -> "%"
      [] escape = "%3F" -> "?"
      [] escape = "%23" -> "#"
      [] escape = "%2F" -> "/"
      [] OTHER -> escape

\* The form-urlencoded decoding of s: "+" is a space, %XX a character.
RECURSIVE FormDecode(_)
FormDecode(s) ==
    IF s = "" THEN ""
    ELSE IF CharAt(s, 1) = "+" THEN " " \o FormDecode(SubSeq(s, 2, Len(s)))
    ELSE IF CharAt(s, 1) = "%" /\ Len(s) >= 3
         THEN PercentDecoded(SubSeq(s, 1, 3)) \o FormDecode(SubSeq(s, 4, Len(s)))
    ELSE CharAt(s, 1) \o FormDecode(SubSeq(s, 2, Len(s)))

\* The name/value pairs a query string reads as: cut at "&", each piece cut
\* at its first "=", both sides decoded.
ParsePairs(qs) ==
    IF qs = "" THEN <<>>
    ELSE LET pieces == SplitOn(qs, "&")
         IN  [i \in 1..Len(pieces) |->
                 LET piece == pieces[i]
                     eq == FirstIndexOf(piece, "=")
                 IN  IF eq = 0 THEN [name |-> FormDecode(piece), value |-> ""]
                     ELSE [name |-> FormDecode(SubSeq(piece, 1, eq - 1)),
                           value |-> FormDecode(SubSeq(piece, eq + 1, Len(piece)))]]

\* key=String(value) for every entry with a defined value, as written, in
\* the order the entries were created, joined by "&".
RECURSIVE LiteralQuery(_)
LiteralQuery(props) ==
    IF props = <<>> THEN ""
    ELSE LET rest == LiteralQuery(Tail(props))
             e == Head(props)
         IN  IF e.value = Undef THEN rest
             ELSE e.key \o "=" \o JSString(e.value) \o (IF rest # "" THEN "&" ELSE "") \o rest

UrlProps == IF urlIn.hasParams THEN urlIn.params ELSE <<>>

\* The position at which the key was created in the params object.
CreatedAt(props, key) == CHOOSE i \in 1..Len(props) : props[i].key = key

\* Object.entries lists key a before key b.
ListedBefore(props, a, b) ==
    CASE IsIntegerKey(a) /\ IsIntegerKey(b) -> DecimalValue(a) < DecimalValue(b)
      [] IsIntegerKey(a) /\ ~IsIntegerKey(b) -> TRUE
      [] ~IsIntegerKey(a) /\ IsIntegerKey(b) -> FALSE
      [] OTHER -> CreatedAt(props, a) < CreatedAt(props, b)

\* C3 as stated: the query string holds, in the mapping's insertion order,
\* exactly the text key=String(value) for each entry whose value is not
\* undefined, and nothing for an entry whose value is undefined.
C3_LiteralPairsInInsertionOrder ==
    urlOut.done => QueryOf(urlOut.value) = LiteralQuery(UrlProps)

\* C3, amended: read back as form-urlencoded pairs, the query string holds
\* exactly one pair (key, String(value)) for each entry whose value is not
\* undefined and no pair for an entry whose value is undefined; keys and
\* values are form-urlencoded in the text (a space is "+", reserved
\* characters are percent-encoded); the pairs are in Object.entries order:
\* integer-like keys first, ascending, then the other keys in insertion order.
C3_EncodedPairsInEntriesOrder ==
    urlOut.done =>
        LET props == UrlProps
            pairs == ParsePairs(QueryOf(urlOut.value))
            defined == {i \in 1..Len(props) : props[i].value # Undef}
        IN  /\ Len(pairs) = Cardinality(defined)
            /\ \A i \in defined :
                   \E j \in 1..Len(pairs) :
                       pairs[j] = [name |-> props[i].key, value |-> JSString(props[i].value)]
            /\ \A i \in (1..Len(props)) \ defined :
                   \A j \in 1..Len(pairs) : pairs[j].name # props[i].key
            /\ \A j, k \in 1..Len(pairs) :
                   j < k => ListedBefore(props, pairs[j].name, pairs[k].name)

\* A search for "blue sky" with an undefined page: the space is sent as "+"
\* and page is not sent.
C3_Witness ==
    /\ urlOut.done
    /\ urlIn.hasParams
    /\ urlIn.params = <<[key |-> "query", value |-> Str("blue sky")],
                        [key |-> "page", value |-> Undef]>>
    /\ urlOut.value = "https://api.unsplash.com/search/photos?query=blue+sky"


-----------------------------------------------------------------------------
(* Properties of truncateIfNeeded (specification SpecTruncate).             *)

\* C4: for every text and every ceiling, the returned string is at most
\* ceiling characters long, small ceilings included.
C4_LengthAtMostCeiling ==
    truncOut.done => Len(truncOut.value) <= LimitOrDefault(truncIn)

\* C5: a text whose length is at most the ceiling, equality included, is
\* returned unchanged, with no suffix.
C5_ShortTextUnchanged ==
    (truncOut.done /\ Len(truncIn.content) <= LimitOrDefault(truncIn)) =>
        truncOut.value = truncIn.content

\* A non-empty text exactly as long as the ceiling has been returned.
C5_Witness ==
    /\ truncOut.done
    /\ Len(truncIn.content) = truncIn.limit
    /\ truncIn.limit > 0
    /\ truncOut.value = truncIn.content

-----------------------------------------------------------------------------
(* Properties of the client (specification Spec).                           *)

\* C6: trackDownload never throws or rejects, whatever its fetch did:
\* resolved with a success status, resolved with another status, or rejected.
C6_TrackDownloadNeverRejects ==
    /\ tresult.state # "rejected"
    /\ tpc = "done" => tresult.state = "resolved"

\* trackDownload has settled after its fetch rejected.
C6_Witness ==
    /\ tpc = "done"
    /\ tresult.fetched = "failed"
    /\ tresult.state = "resolved"

\* The JSON error documents: objects whose errors field is absent or an
\* array of strings and whose error field is absent or a string.
ErrorDocuments == {d \in JsonDocs : d.k = "object" /\ d.errors.p \in {"absent", "array"}}

\* The message by precedence: the first element of errors when there is one
\* and it is not empty, else error when it is present and not empty, else the
\* generic message.
MessageByPrecedence(d, status) ==
    IF d.errors.p = "array" /\ d.errors.items # <<>> /\ d.errors.items[1] # ""
    THEN d.errors.items[1]
    ELSE IF d.error.p = "string" /\ d.error.s # "" THEN d.error.s
    ELSE "Unsplash API error (" \o ToString(status) \o ")"

\* C7: for a response that is not ok whose body is a JSON error document,
\* the thrown error's message is the first element of the array-valued
\* errors field, else the error field, else "Unsplash API error (N)" (an
\* empty first element or an empty error field counts as none).
C7_MessagePrecedence ==
    (SettledNotOk /\ resp.read = "ok") =>
        \A d \in ErrorDocuments :
            resp.body = JSONStringify(d) =>
                /\ result.kind = "threw"
                /\ result.error.message = MessageByPrecedence(d, resp.status)

\* Status 401 with the body {"errors":["Unauthorized"]} has given the
\* message "Unauthorized".
C7_Witness ==
    /\ SettledNotOk
    /\ resp.status = 401
    /\ resp.body = "{\"errors\":[\"Unauthorized\"]}"
    /\ result.kind = "threw"
    /\ result.error.message = "Unauthorized"
    /\ result.error.statusCode = Num(401)

\* The body is no JSON text, or is the JSON text null (which has no fields).
NoStructuredDocument(body) ==
    \/ \A d \in JsonDocs : JSONStringify(d) # body
    \/ body = "null"

C9_KeyRequiredAndKept ==
    /\ ctorState = "threw" <=> (ctorState # "new" /\ ctorArg \in {Undef, Str("")})
    /\ ctorState = "threw" => (pc = "idle" /\ tpc = "idle")
    /\ ctorState = "ok" => (accessKey = ctorArg /\ accessKey.t = "string" /\ accessKey.s # "")

\* Both kinds of call have settled on a constructed client.
C9_Witness ==
    /\ ctorState = "ok"
    /\ pc = "done"
    /\ tpc = "done"
    /\ log # <<>>
    /\ accessKey = Str("test-key")

\* C10 as stated: whenever the response is ok, makeRequest returns exactly
\* the parsed body and throws nothing.
C10_OkAlwaysReturnsBody ==
    (pc = "done" /\ resp.present /\ resp.ok) =>
        /\ result.kind = "returned"
        /\ JSONStringify(result.value) = resp.body

\* C10, amended: whenever the response is ok and its body is read and
\* parsed as JSON, makeRequest returns exactly the parsed body (its JSON text
\* is the body's) and throws nothing; when the body of an ok response cannot
\* be read or parsed, makeRequest throws an UnsplashAPIError.
C10_OkParsedBodyReturned ==
    (pc = "done" /\ resp.present /\ resp.ok) =>
        /\ resp.read = "ok" =>
               /\ result.kind = "returned"
               /\ JSONStringify(result.value) = resp.body
        /\ resp.read = "failed" =>
               /\ result.kind = "threw"
               /\ result.error.cls = "UnsplashAPIError"

\* An ok response with the body {"id":"test"} has been returned.
C10_Witness ==
    /\ pc = "done"
    /\ resp.ok
    /\ resp.body = "{\"id\":\"test\"}"
    /\ result.kind = "returned"
    /\ result.value = JObject(FAbsent, FAbsent, FString("test"))

-----------------------------------------------------------------------------
(* Properties of makeRequest: outbound calls (specification Spec).          *)

\* The call has met a failure: fetch rejected, the response is not ok, or the
\* body of the response could not be read or parsed.
CallFailed ==
    \/ fetchThrown.present
    \/ resp.present /\ ~resp.ok
    \/ resp.read = "failed"

\* C11: a call of makeRequest has called fetch exactly once from its start
\* to its end, whichever path it takes, and a call that met a failure has
\* settled by throwing, with no second fetch.
C11_OneFetchNoRetry ==
    /\ pc # "idle" => fetchCount = 1
    /\ (pc = "done" /\ CallFailed) => (result.kind = "threw" /\ fetchCount = 1)

\* A call whose fetch rejected has ended, after one fetch, by throwing.
C11_Witness ==
    /\ pc = "done"
    /\ fetchThrown.present
    /\ fetchCount = 1
    /\ result.kind = "threw"

-----------------------------------------------------------------------------
(* Properties of the single-record formatters (specification SpecFormat).   *)

\* The lines of a text.
Lines(text) == SplitOn(text, "\n")

\* Some line of the text is exactly `line`.
HasLine(text, line) == \E i \in 1..Len(Lines(text)) : Lines(text)[i] = line

\* Some line of the text starts with `prefix`.
HasLineStarting(text, prefix) ==
    \E i \in 1..Len(Lines(text)) : StartsWith(Lines(text)[i], prefix)

\* The decimal digits of a number without its sign.
Magnitude(n) == IF n < 0 THEN ToString(0 - n) ELSE ToString(n)

FormattedStatistics == fmtOut.done /\ fmtIn.kind = "statistics"

\* The three change lines of a statistics record, each change written by `show`.
ChangeLinesAre(show(_)) ==
    /\ HasLine(fmtOut.out.text,
               "- Downloads change: " \o show(fmtIn.record.downloads.historical.change))
    /\ HasLine(fmtOut.out.text,
               "- Views change: " \o show(fmtIn.record.views.historical.change))
    /\ HasLine(fmtOut.out.text,
               "- Likes change: " \o show(fmtIn.record.likes.historical.change))

\* "+" before every non-negative change, zero included.
PlusForNonNegative(change) ==
    IF change >= 0 THEN "+" \o Magnitude(change) ELSE "-" \o Magnitude(change)

\* "+" before every positive change; zero bare.
PlusForPositive(change) ==
    IF change > 0 THEN "+" \o Magnitude(change)
    ELSE IF change = 0 THEN "0"
    ELSE "-" \o Magnitude(change)

\* C15 as stated: formatStatisticsMarkdown writes every non-negative change,
\* zero included, with a leading "+", and a negative change with its minus
\* sign.
C15_PlusForNonNegativeChange ==
    FormattedStatistics => (fmtOut.out.ok /\ ChangeLinesAre(PlusForNonNegative))

\* C15, amended: formatStatisticsMarkdown writes every positive change with
\* a leading "+" (250 as "+250"), a negative change with its minus sign
\* (-100 as "-100"), and a change of zero as "0" with no sign.
C15_PlusForPositiveChange ==
    FormattedStatistics => (fmtOut.out.ok /\ ChangeLinesAre(PlusForPositive))

\* The record of the tests with a downloads change of zero has been
\* formatted: "+250" is not there, "0" is.
C15_Witness ==
    /\ FormattedStatistics
    /\ fmtIn.record.downloads.historical.change = 0
    /\ fmtIn.record.views.historical.change = -100
    /\ fmtIn.record.likes.historical.change = 10
    /\ HasLine(fmtOut.out.text, "- Downloads change: 0")
    /\ HasLine(fmtOut.out.text, "- Views change: -100")
    /\ HasLine(fmtOut.out.text, "- Likes change: +10")

\* The line of an optional string field: there, with the field's text, when
\* the field holds a non-empty string, and not there at all otherwise.
OptionalLine(text, prefix, value) ==
    IF Truthy(value) THEN HasLine(text, prefix \o JSString(value))
    ELSE ~HasLineStarting(text, prefix)

\* How many of the values hold a non-empty string.
RECURSIVE CountPresent(_)
CountPresent(values) ==
    IF values = <<>> THEN 0
    ELSE (IF Truthy(Head(values)) THEN 1 ELSE 0) + CountPresent(Tail(values))

LocationName(photo) == IF photo.location.present THEN photo.location.name ELSE Undef

HasTags(photo) == photo.tags.present /\ photo.tags.titles # <<>>

PhotoLinesGuarded(photo, text) ==
    /\ Lines(text)[1] =
           "### " \o (IF Truthy(photo.alt_description) THEN photo.alt_description.s
                      ELSE IF Truthy(photo.description) THEN photo.description.s
                      ELSE "Photo")
    /\ HasLine(text, "**ID**: test-123")
    /\ HasLine(text, "**Photographer**: Test User (@testuser)")
    /\ HasLine(text, "**Dimensions**: 1920 × 1080px")
    /\ HasLine(text, "**Color**: #000000")
    /\ HasLine(text, "**Likes**: 42")
    /\ HasLine(text, "**Created**: 1/1/2024")
    /\ HasLine(text, "**Unsplash URL**: https://unsplash.com/photos/test-123")
    /\ HasLine(text, "**Download URL**: https://example.com/regular")
    /\ OptionalLine(text, "**Description**: ", photo.description)
    /\ OptionalLine(text, "**Location**: ", LocationName(photo))
    /\ IF HasTags(photo) THEN HasLine(text, "**Tags**: test, photo")
       ELSE ~HasLineStarting(text, "**Tags**: ")
    /\ Len(Lines(text)) =
           9 + CountPresent(<<photo.description, LocationName(photo)>>)
             + (IF HasTags(photo) THEN 1 ELSE 0)

CollectionLinesGuarded(collection, text) ==
    /\ Lines(text)[1] = "### Test Collection"
    /\ HasLine(text, "**ID**: coll-123")
    /\ HasLine(text, "**Curator**: Test Curator (@curator)")
    /\ HasLine(text, "**Total Photos**: 25")
    /\ HasLine(text, "**Published**: 1/1/2024")
    /\ HasLine(text, "**Unsplash URL**: https://unsplash.com/collections/coll-123")
    /\ OptionalLine(text, "**Description**: ", collection.description)
    /\ Len(Lines(text)) = 6 + CountPresent(<<collection.description>>)

UserLinesGuarded(user, text) ==
    /\ Lines(text)[1] = "### Test User (@testuser)"
    /\ HasLine(text, "**ID**: user-1")
    /\ HasLine(text, "**Total Photos**: 150")
    /\ HasLine(text, "**Total Likes**: 1000")
    /\ HasLine(text, "**Total Collections**: 10")
    /\ HasLine(text, "**Unsplash Profile**: https://unsplash.com/@testuser")
    /\ OptionalLine(text, "**Bio**: ", user.bio)
    /\ OptionalLine(text, "**Location**: ", user.location)
    /\ OptionalLine(text, "**Instagram**: @", user.instagram_username)
    /\ OptionalLine(text, "**Portfolio**: ", user.portfolio_url)
    /\ Len(Lines(text)) =
           6 + CountPresent(<<user.bio, user.location, user.instagram_username,
                              user.portfolio_url>>)

\* C16: formatPhotoMarkdown, formatCollectionMarkdown and formatUserMarkdown,
\* given a record in which any subset of the optional fields (description,
\* alt_description, location and its name, tags, bio, instagram_username,
\* portfolio_url) is absent, return without throwing a text that has no line
\* for an absent field and has every line of the fields that are there. A
\* field holding the empty string or an empty list counts as absent, as the
\* code's truthiness tests read it.
C16_OptionalFieldsGuarded ==
    fmtOut.done =>
        /\ fmtIn.kind \in {"photo", "collection", "user"} => fmtOut.out.ok
        /\ fmtIn.kind = "photo" => PhotoLinesGuarded(fmtIn.record, fmtOut.out.text)
        /\ fmtIn.kind = "collection" =>
               CollectionLinesGuarded(fmtIn.record, fmtOut.out.text)
        /\ fmtIn.kind = "user" => UserLinesGuarded(fmtIn.record, fmtOut.out.text)

\* A user with a bio and a portfolio but no location and no Instagram name
\* has been formatted: eight lines, the two optional ones among them.
C16_Witness ==
    /\ fmtOut.done
    /\ fmtIn.kind = "user"
    /\ fmtIn.record.bio = Str("Professional photographer")
    /\ fmtIn.record.location = Undef
    /\ fmtIn.record.instagram_username = Undef
    /\ fmtIn.record.portfolio_url = Str("https://example.com")
    /\ fmtOut.out.ok
    /\ Len(Lines(fmtOut.out.text)) = 8
    /\ HasLine(fmtOut.out.text, "**Bio**: Professional photographer")
    /\ ~HasLineStarting(fmtOut.out.text, "**Instagram**")

-----------------------------------------------------------------------------
(* Properties of input validation (specification SpecValidate).             *)

ValidatedPaginated == valOut.done /\ valIn.tool \in PaginatedTools

\* An integer within the limits, or nothing (the default applies).
IntegerWithin(raw, low, high) ==
    \/ raw = RawAbsent
    \/ raw.t = "number" /\ raw.tenths = 0 /\ low <= raw.whole /\ raw.whole <= high

IntegerAtLeast(raw, low) ==
    \/ raw = RawAbsent
    \/ raw.t = "number" /\ raw.tenths = 0 /\ low <= raw.whole

\* The arguments carry a key that the tool does not declare. The drawn
\* arguments use the tool's required string, page, per_page and
\* response_format only, out of the parameters the tools declare.
HasUnknownKey(tool, input) ==
    \E i \in 1..Len(input) :
        input[i].key \notin {"page", "per_page", "response_format", RequiredKey(tool)}

\* The parameters other than page and per_page are acceptable: the required
\* string is there and not empty, the format is one of the two or absent.
OthersAcceptable(tool, input) ==
    /\ RequiredKey(tool) # "" =>
           (RawOf(input, RequiredKey(tool)).t = "string"
            /\ RawOf(input, RequiredKey(tool)).s # "")
    /\ RawOf(input, "response_format")
           \in {RawAbsent, RawString("json"), RawString("markdown")}

\* The value of a name in the query string of a URL, as a number; -1 when
\* the name is not there.
QueryNumber(url, name) ==
    LET pairs == ParsePairs(QueryOf(url))
    IN  IF \E i \in 1..Len(pairs) : pairs[i].name = name
        THEN DecimalValue(pairs[CHOOSE i \in 1..Len(pairs) : pairs[i].name = name].value)
        ELSE -1

\* Validation accepts exactly the arguments with an acceptable page and
\* per_page, no undeclared key and acceptable other parameters.
AcceptsExactly ==
    valOut.ok <=>
        /\ IntegerAtLeast(RawOf(valIn.input, "page"), 1)
        /\ IntegerWithin(RawOf(valIn.input, "per_page"), 1, 30)
        /\ ~HasUnknownKey(valIn.tool, valIn.input)
        /\ OthersAcceptable(valIn.tool, valIn.input)

\* The parsed page, per_page and response_format are the ones sent, or the
\* defaults 1, 10 and "markdown".
DefaultsApplied ==
    /\ valOut.params["page"] =
           (IF RawOf(valIn.input, "page") = RawAbsent THEN Num(1)
            ELSE Num(RawOf(valIn.input, "page").whole))
    /\ valOut.params["per_page"] =
           (IF RawOf(valIn.input, "per_page") = RawAbsent THEN Num(10)
            ELSE Num(RawOf(valIn.input, "per_page").whole))
    /\ valOut.params["response_format"] =
           (IF RawOf(valIn.input, "response_format") = RawAbsent
            THEN Str("markdown")
            ELSE Str(RawOf(valIn.input, "response_format").s))

\* The page and per_page that the URL sends to the remote service are the
\* validated ones: a page of at least 1 and a per_page in 1..30.
UrlCarriesPagination ==
    /\ QueryNumber(valOut.url, "page") = valOut.params["page"].n
    /\ QueryNumber(valOut.url, "per_page") = valOut.params["per_page"].n
    /\ QueryNumber(valOut.url, "page") >= 1
    /\ QueryNumber(valOut.url, "per_page") \in 1..30

\* C18: for the six paginated tools (search photos, list photos, search
\* collections, collection photos, search users, user photos) validation
\* accepts exactly the arguments whose page is an integer >= 1 and whose
\* per_page is an integer in 1..30 (each may be absent), and rejects every
\* other value and every undeclared parameter; an absent page becomes 1, an
\* absent per_page 10 and an absent response_format "markdown"; the request
\* of the handler carries the validated page and per_page, so never a page
\* below 1 or a per_page above 30, and rejected arguments send no request.
C18_PaginationValidated ==
    ValidatedPaginated =>
        /\ AcceptsExactly
        /\ valOut.ok => (DefaultsApplied /\ UrlCarriesPagination)
        /\ ~valOut.ok => valOut.url = ""

\* A search without page, per_page and response_format has been accepted
\* with the defaults, and the request carries page=1 and per_page=10.
C18_Witness ==
    /\ valOut.done
    /\ valIn.tool = "unsplash_search_photos"
    /\ valIn.input = <<[key |-> "query", value |-> RawString("nature")]>>
    /\ valOut.ok
    /\ valOut.params["page"] = Num(1)
    /\ valOut.params["per_page"] = Num(10)
    /\ valOut.params["response_format"] = Str("markdown")
    /\ valOut.url = "https://api.unsplash.com/search/photos?query=nature&page=1&per_page=10&content_filter=low&order_by=relevant"

\* Arguments with per_page 31 have been rejected.
C18_WitnessRejected ==
    /\ valOut.done
    /\ valIn.tool = "unsplash_list_photos"
    /\ valIn.input = <<[key |-> "per_page", value |-> RawInteger(31)]>>
    /\ ~valOut.ok

-----------------------------------------------------------------------------
(* Properties of the tool handlers (specification SpecTools).               *)

ToolDone == toolPc = "done"

Tool == toolCall.tool

Markdown == toolCall.params["response_format"] = Str("markdown")

\* The records of the value makeRequest returned, as the tool lists them.
ReturnedItems ==
    IF toolData.shape = "record" THEN <<toolData.record>> ELSE toolData.items

\* What the formatter of the tool makes of the value makeRequest returned.
ToolFormatted ==
    CASE Tool = "unsplash_get_photo" -> formatPhotoMarkdown(toolData.record)
      [] Tool = "unsplash_get_statistics" -> formatStatisticsMarkdown(toolData.record)
      [] OTHER -> formatListMarkdown(ListedKind(Tool), ReturnedItems)

\* The handler has called a formatter, and the formatter threw.
FormatterThrew ==
    /\ toolData.shape # "none"
    /\ Tool # "unsplash_track_download"
    /\ Markdown
    /\ toolData.shape = "search" => toolData.hasResults
    /\ ReturnedItems # <<>>
    /\ ~ToolFormatted.ok

\* An error result: the flag, and one text item made of the tool's prefix
\* and the message.
IsErrorResultWith(message) ==
    /\ toolResult.isError
    /\ ~toolResult.json
    /\ toolResult.structured = NoData
    /\ toolResult.text = "Error " \o ErrorVerb(Tool) \o ": " \o message

ToolsWithOutputMode == Tools \ {"unsplash_track_download"}

\* A tool has returned a markdown text made from what makeRequest returned.
ReturnedMarkdown ==
    /\ ToolDone
    /\ Tool \in ToolsWithOutputMode
    /\ Markdown
    /\ toolData.shape # "none"
    /\ ~toolResult.isError

\* C13: every tool with an output mode returns a markdown text that has
\* gone through truncateIfNeeded, so that its length is at most
\* CHARACTER_LIMIT; unsplash_get_photo, unsplash_get_random and
\* unsplash_get_statistics included.
C13_MarkdownWithinCharacterLimit ==
    ReturnedMarkdown =>
        /\ Len(toolResult.text) <= CHARACTER_LIMIT
        /\ toolResult.text = truncateIfNeeded(toolResult.text, CHARACTER_LIMIT)

\* The tools whose handler calls truncateIfNeeded return at most
\* CHARACTER_LIMIT characters.
TruncatingToolsWithinLimit ==
    (ReturnedMarkdown /\ Tool \in PaginatedTools) =>
        Len(toolResult.text) <= CHARACTER_LIMIT

\* A paginated tool has returned a truncated text.
TruncatingToolTruncated ==
    /\ ReturnedMarkdown
    /\ Tool \in PaginatedTools
    /\ Len(toolResult.text) > CHARACTER_LIMIT - 100

\* A tool has returned a JSON result.
ReturnedJson == ToolDone /\ toolResult.json

ListingTools == SearchTools \cup ListTools \cup {"unsplash_get_random"}

\* makeRequest has returned a list of zero records.
ReturnedZeroRecords ==
    /\ toolData.shape \in {"array", "search"}
    /\ toolData.shape = "search" => toolData.hasResults
    /\ toolData.items = <<>>

\* The result is a "no results" message: not an error, and one text that
\* says that nothing was found, whichever format was asked for.
IsNoResultsMessage ==
    /\ ~toolResult.isError
    /\ ~toolResult.json
    /\ StartsWith(toolResult.text, "No ")
    /\ StartsWith(SubSeq(toolResult.text, 4, Len(toolResult.text)),
                  Plural(ListedKind(Tool)) \o " found")

\* C17: each of the seven list tools (the three searches, list photos,
\* collection photos, user photos and random photos), when makeRequest
\* returns zero records, returns a non-error "no results" message in both
\* output modes and never renders an empty list.
C17_NoResultsMessage ==
    (ToolDone /\ Tool \in ListingTools /\ ReturnedZeroRecords) => IsNoResultsMessage

\* The six tools with the test of `length === 0` do return the message.
PaginatedToolsReportNoResults ==
    (ToolDone /\ Tool \in PaginatedTools /\ ReturnedZeroRecords) => IsNoResultsMessage

\* A search answered with zero records has returned its message.
SearchReportedNoResults ==
    /\ ToolDone
    /\ Tool = "unsplash_search_photos"
    /\ ReturnedZeroRecords
    /\ toolResult = TextResult("No photos found for query: \"nature\"")

TrackTool == Tool = "unsplash_track_download"

\* The calls of an outbound log made through trackDownload.
TrackingCalls == {i \in 1..Len(outbound) : outbound[i].via = "trackDownload"}

\* The lookup of the photo has returned a photo that has links.
LookupSucceeded ==
    /\ TrackTool
    /\ toolData.shape = "record"
    /\ toolData.record.links.present

\* C19: unsplash_track_download first looks the photo up with makeRequest;
\* it makes exactly one tracking call, only after the lookup has returned,
\* to the download_location of the photo looked up (a photo record has
\* links); it makes no tracking call when the lookup fails; and every other
\* tool makes at most one outbound call.
C19_TrackingAfterLookup ==
    /\ outbound # <<>> => outbound[1].via = "makeRequest"
    /\ ~TrackTool => Len(outbound) <= 1
    /\ TrackTool =>
           /\ Len(outbound) <= 2
           /\ toolPc \in {"request", "track", "done"} =>
                  outbound[1] = Outbound("makeRequest",
                                         UNSPLASH_API_URL \o "/photos/"
                                         \o JSString(toolCall.params["id"]))
           /\ toolPc = "request" => TrackingCalls = {}
           /\ toolThrown.present => TrackingCalls = {}
           /\ TrackingCalls # {} =>
                  /\ LookupSucceeded
                  /\ TrackingCalls = {2}
                  /\ outbound[2].url = toolData.record.links.download_location
                  /\ treq.url = toolData.record.links.download_location
           /\ (LookupSucceeded /\ toolPc \in {"track", "done"}) => TrackingCalls = {2}

\* The download of photo test-123 has been tracked: one lookup, then one
\* tracking call to the photo's download_location.
C19_Witness ==
    /\ ToolDone
    /\ TrackTool
    /\ ~toolResult.isError
    /\ outbound = <<Outbound("makeRequest", "https://api.unsplash.com/photos/test-123"),
                    Outbound("trackDownload",
                             "https://api.unsplash.com/photos/test-123/download")>>

\* The tracking call has been made and has not completed.
TrackingPending == toolPc = "track" /\ tpc = "fetch"

\* C20: the tracking call never blocks and never fails the tool: once the
\* lookup has succeeded, the handler returns its non-error result whether
\* the tracking call succeeds, fails or never completes. A handler that
\* returns even if the tracking call never completes is one that can take
\* its return step while the call is pending; and the result it returns
\* after a lookup that gave a photo with links and urls is not an error.
C20_TrackingNeverBlocks ==
    /\ TrackingPending => ENABLED TrackReturns
    /\ (ToolDone /\ LookupSucceeded /\ toolData.record.urls.present) =>
           ~toolResult.isError

\* Once the tracking call has completed, by a response of any status or by
\* a failure that trackDownload caught, the handler can return, and what it
\* returns for a photo with links and urls is the text of success.
ReturnsOnceTrackingSettled ==
    /\ (toolPc = "track" /\ tpc = "done") => ENABLED TrackReturns
    /\ (ToolDone /\ LookupSucceeded /\ toolData.record.urls.present) =>
           toolResult = TextResult("Download tracked for photo test-123. "
                                   \o "You can download the photo from: "
                                   \o "https://example.com/regular")

\* The tool has returned success after a tracking call that failed.
ReturnedAfterFailedTracking ==
    /\ ToolDone
    /\ LookupSucceeded
    /\ tresult.fetched = "failed"
    /\ ~toolResult.isError

-----------------------------------------------------------------------------
(* The default ceiling and the shape of a truncated text (SpecTruncate).    *)

\* The default ceiling the conventions of the repository name.
DocumentedDefaultLimit == 100000

\* The call gave no limit and has returned.
DefaultLimitCall == truncOut.done /\ ~truncIn.given

\* C21: called without an explicit limit, truncateIfNeeded applies a ceiling
\* of 100,000 characters: a text of at most 100,000 characters is returned
\* unchanged.
C21_DefaultCeilingIs100000 ==
    (DefaultLimitCall /\ Len(truncIn.content) <= DocumentedDefaultLimit) =>
        truncOut.value = truncIn.content

\* The ceiling the code applies without an explicit limit is CHARACTER_LIMIT:
\* texts up to it are returned unchanged, longer ones are cut.
DefaultCeilingIsCharacterLimit ==
    DefaultLimitCall =>
        (truncOut.value = truncIn.content <=> Len(truncIn.content) <= CHARACTER_LIMIT)

\* A text one character over CHARACTER_LIMIT has been cut by a call that
\* gave no limit.
DefaultLimitCut ==
    /\ DefaultLimitCall
    /\ Len(truncIn.content) = CHARACTER_LIMIT + 1
    /\ truncOut.value # truncIn.content

\* A call of truncateIfNeeded has returned for a text longer than its ceiling.
LongTextCall == truncOut.done /\ Len(truncIn.content) > LimitOrDefault(truncIn)

\* How many characters of the text are kept: ceiling - 100, none when the
\* ceiling is below 100.
KeptLength ==
    IF LimitOrDefault(truncIn) > 100 THEN LimitOrDefault(truncIn) - 100 ELSE 0

NoticeHead == "\n\n...[Content truncated due to length. Total: "

NoticeTail == " characters]"

\* What the returned string holds between the notice's head and its tail.
NoticeTotal ==
    SubSeq(truncOut.value, KeptLength + Len(NoticeHead) + 1,
           Len(truncOut.value) - Len(NoticeTail))

\* C22: for every text longer than the ceiling, the returned string is the
\* first (ceiling - 100) characters of the text, then the fixed notice
\* "\n\n...[Content truncated due to length. Total: N characters]", where N
\* is the length of the text in decimal; the kept part is a prefix of the
\* text, cut at a character offset.
C22_PrefixThenNotice ==
    LongTextCall =>
        /\ Len(truncOut.value) > KeptLength + Len(NoticeHead) + Len(NoticeTail)
        /\ SubSeq(truncOut.value, 1, KeptLength) = SubSeq(truncIn.content, 1, KeptLength)
        /\ SubSeq(truncOut.value, KeptLength + 1, KeptLength + Len(NoticeHead)) = NoticeHead
        /\ SubSeq(truncOut.value, Len(truncOut.value) - Len(NoticeTail) + 1,
                  Len(truncOut.value)) = NoticeTail
        /\ AllDigits(NoticeTotal)
        /\ CharAt(NoticeTotal, 1) # "0"
        /\ DecimalValue(NoticeTotal) = Len(truncIn.content)

\* A text of 120 characters has been cut at a ceiling of 110: ten characters
\* are kept before the notice.
C22_Witness ==
    /\ LongTextCall
    /\ truncIn.given
    /\ KeptLength = 10
    /\ Len(truncIn.content) = 120
    /\ SubSeq(truncOut.value, 1, 10) = "1234567890"

-----------------------------------------------------------------------------
(* What trackDownload writes to the log (specification Spec).               *)

\* The step in which the fetch of trackDownload settles.
TrackSettles == tpc = "fetch" /\ tpc' = "done"

\* The tracking call failed: fetch rejected, or the response it resolved with
\* has a non-success status.
TrackFailed(settled) ==
    \/ settled.fetched = "failed"
    \/ settled.fetched = "response" /\ ~ResponseOk(settled.status)

\* C23: every failed tracking call, by a transport failure or by a
\* non-success status, is written to the log exactly once before
\* trackDownload swallows it.
C23_FailedTrackingLogged ==
    [][(TrackSettles /\ TrackFailed(tresult')) => Len(log') = Len(log) + 1]_vars

\* A transport failure is written to the log once, last, with the value
\* fetch rejected with; a response, whatever its status, writes nothing.
TransportFailureLoggedOnce ==
    [][TrackSettles =>
          IF tresult'.fetched = "failed"
          THEN Len(log') = Len(log) + 1 /\ SubSeq(log', 1, Len(log)) = log
          ELSE log' = log]_vars

\* trackDownload has settled on a response with a non-success status and the
\* log is empty.
StatusFailureNotLogged ==
    /\ tpc = "done"
    /\ tresult.fetched = "response"
    /\ ~ResponseOk(tresult.status)
    /\ log = <<>>

-----------------------------------------------------------------------------
(* The identifier in the outbound URL (specification SpecValidate).         *)

\* The tools that look a record up by a photo id, a collection id or a
\* username.
ByIdTools ==
    {"unsplash_get_photo", "unsplash_get_statistics", "unsplash_track_download",
     "unsplash_get_collection_photos", "unsplash_get_user_photos"}

\* How many times the character ch occurs in s.
Occurrences(s, ch) == Cardinality({i \in 1..Len(s) : CharAt(s, i) = ch})

\* The path separators of a tool's URL when the identifier is one segment:
\* two of "https://", then /photos/{id}, /photos/{id}/statistics,
\* /collections/{id}/photos or /users/{username}/photos.
PathSeparators(tool) ==
    IF tool \in {"unsplash_get_photo", "unsplash_track_download"} THEN 4 ELSE 5

\* Whether a tool's URL has a query string: the two paginated tools send page
\* and per_page, the three others send no parameters.
HasQueryString(tool) ==
    tool \in {"unsplash_get_collection_photos", "unsplash_get_user_photos"}

\* A by-id tool has been called with arguments that validation accepts.
ValidatedById == valOut.done /\ valOut.ok /\ valIn.tool \in ByIdTools

\* The identifier as parsed.
Identifier == JSString(valOut.params[RequiredKey(valIn.tool)])

OneSegment ==
    /\ Occurrences(valOut.url, "/") = PathSeparators(valIn.tool)
    /\ Occurrences(valOut.url, "?") = IF HasQueryString(valIn.tool) THEN 1 ELSE 0

\* C24: for a by-id or by-username tool, every identifier that validation
\* accepts is exactly one path segment of the outbound URL: it adds no path
\* segment and no query string, and the URL of get photo and of statistics
\* has no query string at all.
C24_IdentifierIsOnePathSegment == ValidatedById => OneSegment

\* An identifier without "/" and "?" is one path segment.
PlainIdentifierIsOnePathSegment ==
    (/\ ValidatedById
     /\ Occurrences(Identifier, "/") = 0
     /\ Occurrences(Identifier, "?") = 0) => OneSegment

\* Get photo was called with the id "a?page=0&", which validation accepts,
\* and its URL has a query string.
IdentifierAddedQueryString ==
    /\ ValidatedById
    /\ valIn.tool = "unsplash_get_photo"
    /\ Identifier = "a?page=0&"
    /\ valOut.url = UNSPLASH_API_URL \o "/photos/a?page=0&"

\* The identifier of the call, if the tool has one, has no "/" and no "?".
PlainIdentifier ==
    RequiredKey(valIn.tool) \in {"id", "username"} =>
        /\ Occurrences(Identifier, "/") = 0
        /\ Occurrences(Identifier, "?") = 0

\* Validation of the paginated tools is exact and applies the defaults; the
\* URL carries the validated page and per_page when the identifier is plain.
PaginationValidatedForPlainIdentifiers ==
    ValidatedPaginated =>
        /\ AcceptsExactly
        /\ valOut.ok => (DefaultsApplied /\ (PlainIdentifier => UrlCarriesPagination))
        /\ ~valOut.ok => valOut.url = ""

\* User photos was called with the username "a?page=0&", which validation
\* accepts, and the URL sends page=0 to the remote service.
IdentifierSetPage ==
    /\ ValidatedPaginated
    /\ valOut.ok
    /\ valIn.tool = "unsplash_get_user_photos"
    /\ Identifier = "a?page=0&"
    /\ valOut.params["page"] = Num(1)
    /\ QueryNumber(valOut.url, "page") = 0

-----------------------------------------------------------------------------
(* Several calls of makeRequest in flight on one client. The handlers share *)
(* the client that registerPhotoTools and registerCollectionUserTools are   *)
(* given; url, response, errorText and errorMessage are locals of a call,   *)
(* this.accessKey is the one field a call reads.                            *)

MaxOps == 2

Operations == 1..MaxOps

NoOperation ==
    [pc |-> "idle", req |-> NoRequest, resp |-> NoResponse,
     fetchThrown |-> NoThrown, readThrown |-> NoThrown, result |-> NoResult]

\* The calls the handlers make.
OperationInputs ==
    {[endpoint |-> "/search/photos", hasParams |-> TRUE,
      params |-> <<[key |-> "query", value |-> Str("nature")],
                   [key |-> "page", value |-> Num(1)]>>],
     [endpoint |-> "/photos/abc123", hasParams |-> FALSE, params |-> <<>>]}

\* The responses the calls receive.
OperationStatuses == {200, 404}

OperationBodies ==
    {JSONStringify(JObject(FAbsent, FAbsent, FString("test"))), "Not Found"}

InitOperations ==
    /\ ctorArg = Str("test-key")
    /\ ctorState = "ok"
    /\ accessKey = Str("test-key")
    /\ pc = "idle"
    /\ req = NoRequest
    /\ resp = NoResponse
    /\ fetchThrown = NoThrown
    /\ result = NoResult
    /\ fetchCount = 0
    /\ tpc = "idle"
    /\ treq = NoTrackRequest
    /\ tresult = NoTrackResult
    /\ log = <<>>
    /\ IdlePure
    /\ IdleFormat
    /\ IdleValidate
    /\ IdleTools
    /\ ops = [i \in Operations |-> NoOperation]

OperationUnchanged ==
    UNCHANGED <<clientVars, callVars, trackVars, urlVars, truncVars, fmtVars, valVars, toolVars>>

\* makeRequest up to its first await: lines 33-52.
OpMakeRequest(i, in) ==
    /\ ops[i].pc = "idle"
    /\ ops' = [ops EXCEPT ![i] =
                  [@ EXCEPT !.req = [endpoint |-> in.endpoint, hasParams |-> in.hasParams,
                                     params |-> in.params,
                                     url |-> BuildUrl(in.endpoint, in.hasParams, in.params),
                                     headers |-> RequestHeaders(accessKey)],
                            !.pc = "fetch"]]
    /\ OperationUnchanged

\* OpFetchResolve keeping the response in a field of the client, which every
\* call waiting for its fetch then takes as its own.
OpFetchResolve_SharedResponse(i, status, body) ==
    /\ ops[i].pc = "fetch"
    /\ ops' = [j \in Operations |->
                  IF ops[j].pc = "fetch"
                  THEN [ops[j] EXCEPT
                           !.resp = [present |-> TRUE, status |-> status,
                                     ok |-> ResponseOk(status), body |-> body,
                                     read |-> "pending"],
                           !.pc = IF ResponseOk(status) THEN "json" ELSE "text"]
                  ELSE ops[j]]
    /\ OperationUnchanged

\* The fetch of call i resolves with a response: lines 47-55 or 68.
OpFetchResolve(i, status, body) ==
    /\ ops[i].pc = "fetch"
    /\ ops' = [ops EXCEPT ![i] =
                  [@ EXCEPT !.resp = [present |-> TRUE, status |-> status,
                                      ok |-> ResponseOk(status), body |-> body,
                                      read |-> "pending"],
                            !.pc = IF ResponseOk(status) THEN "json" ELSE "text"]]
    /\ OperationUnchanged

\* The fetch of call i rejects: the outer catch, lines 69-83.
OpFetchReject(i, error) ==
    /\ ops[i].pc = "fetch"
    /\ ops' = [ops EXCEPT ![i] =
                  [@ EXCEPT !.fetchThrown = [present |-> TRUE, error |-> error],
                            !.result = Threw(OuterCatch(error)),
                            !.pc = "done"]]
    /\ OperationUnchanged

\* response.text() of call i resolves: lines 55-65.
OpTextResolve(i) ==
    /\ ops[i].pc = "text"
    /\ ops' = [ops EXCEPT ![i] =
                  [@ EXCEPT !.resp = [@ EXCEPT !.read = "ok"],
                            !.result = Threw(OuterCatch(StatusError(ops[i].resp.status,
                                                                    ops[i].resp.body))),
                            !.pc = "done"]]
    /\ OperationUnchanged

\* response.json() of call i resolves with the parsed body: line 68.
OpJsonResolve(i) ==
    /\ ops[i].pc = "json"
    /\ JSONParse(ops[i].resp.body).ok
    /\ ops' = [ops EXCEPT ![i] =
                  [@ EXCEPT !.resp = [@ EXCEPT !.read = "ok"],
                            !.result = Returned(SuccessValue(JSONParse(ops[i].resp.body).value)),
                            !.pc = "done"]]
    /\ OperationUnchanged

\* response.text() or response.json() of call i rejects: the outer catch.
OpReadReject(i, error) ==
    /\ ops[i].pc \in {"text", "json"}
    /\ (ops[i].pc = "text" => error # JsonSyntaxError)
    /\ (error = JsonSyntaxError => ~JSONParse(ops[i].resp.body).ok)
    /\ ops' = [ops EXCEPT ![i] =
                  [@ EXCEPT !.resp = [@ EXCEPT !.read = "failed"],
                            !.readThrown = [present |-> TRUE, error |-> error],
                            !.result = Threw(OuterCatch(error)),
                            !.pc = "done"]]
    /\ OperationUnchanged

NextOperations ==
    \/ \E i \in Operations, in \in OperationInputs : OpMakeRequest(i, in)
    \/ \E i \in Operations, status \in OperationStatuses, body \in OperationBodies :
           OpFetchResolve(i, status, body)
    \/ \E i \in Operations : OpFetchReject(i, Thrown("TypeError", "fetch failed"))
    \/ \E i \in Operations : OpTextResolve(i)
    \/ \E i \in Operations : OpJsonResolve(i)
    \/ \E i \in Operations, error \in BodyThrowables \cup {JsonSyntaxError} :
           OpReadReject(i, error)

SpecOperations == InitOperations /\ [][NextOperations]_vars

-----------------------------------------------------------------------------
(* Independence of concurrent operations (specification SpecOperations).    *)

\* What a call of makeRequest settles with when it runs alone, from what its
\* own fetch and its own body read did.
OwnOutcome(op) ==
    IF op.fetchThrown.present THEN Threw(OuterCatch(op.fetchThrown.error))
    ELSE IF op.readThrown.present THEN Threw(OuterCatch(op.readThrown.error))
    ELSE IF ~op.resp.ok THEN Threw(StatusError(op.resp.status, op.resp.body))
    ELSE Returned(JSONParse(op.resp.body).value)

\* C25: operations issued concurrently, their network calls completing in
\* any interleaving, are independent: each settles with the result or the
\* error of its own response, a step of one operation changes no state of
\* another, and the access key, the one shared value, is never written.
C25_OperationsIndependent ==
    [][/\ accessKey' = accessKey
       /\ \A i \in Operations :
             ops'[i] # ops[i] => \A j \in Operations \ {i} : ops'[j] = ops[j]
       /\ \A i \in Operations :
             ops'[i].pc = "done" => ops'[i].result = OwnOutcome(ops'[i])
       /\ \A i \in Operations :
             ops'[i].pc # "idle" => ops'[i].req.headers = RequestHeaders(ctorArg)]_vars

\* Two operations are in flight at once: the first has settled with the
\* error of its 404 response while the second holds its own 200 response,
\* not read yet.
C25_Witness ==
    /\ ops[1].pc = "done"
    /\ ops[1].req.endpoint = "/search/photos"
    /\ ops[1].resp.status = 404
    /\ ops[1].result.kind = "threw"
    /\ ops[1].result.error.statusCode = Num(404)
    /\ ops[2].pc = "json"
    /\ ops[2].req.endpoint = "/photos/abc123"
    /\ ops[2].resp.status = 200

-----------------------------------------------------------------------------
(* The headers of makeRequest (specification Spec).                         *)

\* C26: every outbound call of makeRequest, in any sequence of calls on one
\* client, carries exactly two headers: Authorization, which is "Client-ID "
\* followed by the access key given at construction, and Accept-Version,
\* which is "v1".
C26_TwoFixedHeaders ==
    pc # "idle" =>
        /\ DOMAIN req.headers = {"Authorization", "Accept-Version"}
        /\ req.headers["Authorization"] = "Client-ID " \o ctorArg.s
        /\ req.headers["Accept-Version"] = "v1"

\* A call on a client constructed with "other-key" is waiting for its fetch.
C26_Witness ==
    /\ pc = "fetch"
    /\ ctorArg = Str("other-key")
    /\ req.headers["Authorization"] = "Client-ID other-key"
    /\ req.headers["Accept-Version"] = "v1"

-----------------------------------------------------------------------------
(* The list formatters (specification SpecFormat).                          *)

\* A list formatter has returned.
FormattedList == fmtOut.done /\ fmtIn.kind \in {"photos", "collections", "users"}

\* The lines of one entry: four for a photo and for a collection, three for
\* a user.
EntryLines(kind) == IF kind = "users" THEN 3 ELSE 4

\* The first line of the entry of a record at position i.
EntryHeading(kind, record, i) ==
    CASE kind = "photos" ->
            ToString(i) \o ". **"
            \o (IF record.alt_description.t = "string" /\ record.alt_description.s # ""
                THEN record.alt_description.s ELSE "Photo")
            \o "** (ID: " \o record.id \o ")"
      [] kind = "collections" ->
            ToString(i) \o ". **" \o record.title \o "** (ID: " \o record.id \o ")"
      [] kind = "users" ->
            ToString(i) \o ". **" \o record.name \o "** (@" \o record.username \o ")"

\* The text is n entries of k lines each, the i-th headed by the heading of
\* the i-th record, with one empty line between two entries and nowhere else.
EntriesInOrder(text, kind, items) ==
    LET n == Len(items)
        k == EntryLines(kind)
    IN  IF n = 0 THEN text = ""
        ELSE /\ Len(Lines(text)) = n * k + (n - 1)
             /\ \A i \in 1..n :
                    Lines(text)[(i - 1) * (k + 1) + 1] = EntryHeading(kind, items[i], i)
             /\ \A p \in 1..Len(Lines(text)) :
                    Lines(text)[p] = "" <=> p % (k + 1) = 0

\* C27: each list formatter (photos, collections, users) maps a sequence of
\* n records to n entries in the order of the input, the i-th numbered i
\* from 1, two consecutive entries separated by exactly one blank line; the
\* empty sequence gives the empty string, and a photo without
\* alt_description is labelled "Photo".
C27_ListEntriesNumberedInOrder ==
    FormattedList =>
        /\ fmtOut.out.ok
        /\ EntriesInOrder(fmtOut.out.text, fmtIn.kind, fmtIn.record.items)

\* Three photos have been formatted, the second without alt_description: its
\* entry is numbered 2 and labelled "Photo".
C27_Witness ==
    /\ FormattedList
    /\ fmtIn.kind = "photos"
    /\ Len(fmtIn.record.items) = 3
    /\ fmtIn.record.items[1] = TestPhoto
    /\ fmtIn.record.items[2] = BarePhoto
    /\ HasLine(fmtOut.out.text, "1. **A test photo** (ID: test-123)")
    /\ HasLine(fmtOut.out.text, "2. **Photo** (ID: bare-456)")

\* The empty list of users has been formatted to the empty string.
EmptyListFormatted ==
    /\ FormattedList
    /\ fmtIn.kind = "users"
    /\ fmtIn.record.items = <<>>
    /\ fmtOut.out.text = ""

-----------------------------------------------------------------------------
(* The "?" of the outbound URL (specification SpecUrl).                     *)

\* The call gives a params object with at least one value that is not
\* undefined.
HasDefinedParam ==
    /\ urlIn.hasParams
    /\ \E i \in 1..Len(urlIn.params) : urlIn.params[i].value # Undef

\* C28: the outbound URL is the base URL, then the endpoint, then "?" and
\* the query string if and only if the query string is not empty: without
\* params, with an empty params object or with one whose values are all
\* undefined, the URL has no "?".
C28_QuestionMarkIffQuery ==
    urlOut.done =>
        LET path == UNSPLASH_API_URL \o urlIn.endpoint
        IN  IF HasDefinedParam
            THEN /\ SubSeq(urlOut.value, 1, Len(path) + 1) = path \o "?"
                 /\ Len(urlOut.value) > Len(path) + 1
                 /\ Occurrences(urlOut.value, "?") = 1
            ELSE /\ urlOut.value = path
                 /\ Occurrences(urlOut.value, "?") = 0

\* A URL has been built from a params object with two properties, both
\* undefined: it has no "?".
C28_Witness ==
    /\ urlOut.done
    /\ urlIn.hasParams
    /\ Len(urlIn.params) = 2
    /\ \A i \in 1..Len(urlIn.params) : urlIn.params[i].value = Undef
    /\ urlOut.value = UNSPLASH_API_URL \o urlIn.endpoint

\* A URL has been built with a query string.
UrlWithQueryBuilt ==
    /\ urlOut.done
    /\ HasDefinedParam
    /\ urlOut.value = UNSPLASH_API_URL \o "/search/photos?query=nature&page=1"

-----------------------------------------------------------------------------
(* The errors of makeRequest (specification Spec).                          *)

\* The call has settled and something failed on its way: the fetch rejected,
\* the response was not ok, or the body could not be read or parsed.
SettledAfterFailure ==
    /\ pc = "done"
    /\ \/ fetchThrown.present
       \/ resp.present /\ ~resp.ok
       \/ resp.present /\ resp.read = "failed"

\* The call read the body of a response that was not ok.
SettledStatusFailure == pc = "done" /\ resp.present /\ ~resp.ok /\ resp.read = "ok"

\* C29: every failure of makeRequest, on every path (a non-success status, a
\* transport failure with an Error, a transport failure with a value that is
\* not an Error, a failure while reading or parsing a body), reaches the
\* caller as an UnsplashAPIError and as nothing else; the UnsplashAPIError
\* raised for a non-success status is rethrown as it is, not wrapped again.
C29_EveryFailureIsUnsplashAPIError ==
    /\ SettledAfterFailure =>
           /\ result.kind = "threw"
           /\ result.error.cls = "UnsplashAPIError"
    /\ result.kind = "threw" => result.error.cls = "UnsplashAPIError"
    /\ SettledStatusFailure =>
           /\ result.error.statusCode = Num(resp.status)
           /\ result.error.response = RespText(resp.body)
           /\ result.error.message = ErrorMessage(resp.status, resp.body)

\* A call has thrown the error of a 404 response with its status, its body
\* and the message of its body, not wrapped.
C29_Witness ==
    /\ SettledStatusFailure
    /\ resp.status = 404
    /\ resp.body = "Not Found"
    /\ result.error = UnsplashAPIError("Not Found", Num(404), RespText("Not Found"))

\* Another path: the body of a success response could not be read or parsed,
\* and the call threw an UnsplashAPIError.
ParseFailureThrown ==
    /\ pc = "done"
    /\ resp.ok
    /\ resp.read = "failed"
    /\ result.kind = "threw"
    /\ result.error.cls = "UnsplashAPIError"

\* The call threw an error without statusCode whose message starts with
\* "Network error": the report of a transport-level failure.
ReportedAsTransportFailure ==
    /\ pc = "done"
    /\ result.kind = "threw"
    /\ result.error.statusCode = Undef
    /\ StartsWith(result.error.message, "Network error")

\* C30: makeRequest throws an error with no statusCode and the "Network
\* error" prefix only when the fetch failed before a response was obtained;
\* a failure after a response has arrived, reading the body of a non-success
\* response or parsing the body of a success response, is never reported as
\* a transport-level failure.
C30_NetworkErrorOnlyBeforeResponse ==
    ReportedAsTransportFailure => (fetchThrown.present /\ ~resp.present)

\* A transport-level failure is reported exactly when an Error other than an
\* UnsplashAPIError was caught: from fetch, from response.text() or from
\* response.json().
NetworkErrorWheneverAnErrorIsCaught ==
    ReportedAsTransportFailure =>
        \/ fetchThrown.present /\ ~resp.present
        \/ resp.present /\ resp.read = "failed"

\* A success response whose body is not JSON has been reported as a
\* transport-level failure.
ParseFailureReportedAsNetworkError ==
    /\ ReportedAsTransportFailure
    /\ resp.present
    /\ resp.status = 200
    /\ resp.body = "<html>Bad Gateway</html>"
    /\ result.error.message = "Network error: " \o JsonSyntaxError.message

====
